---- MODULE Spec2Model ----
(***************************************************************************)
(* Model of the knowledge-graph store (KnowledgeGraphManager): the backing *)
(* file, the search indexes derived from it, and the public operations,    *)
(* each split at the points where the code awaits file I/O.                *)
(***************************************************************************)
EXTENDS Integers, Sequences, FiniteSets, TLC

\* ------------------------------------------------------------------------
\* Bounds of the model
\* ------------------------------------------------------------------------
MaxReq == 2          \* longest request list, and most strings one request carries
MaxGraph == 3        \* most entities, relations and observations kept, together

Names == {"a", "b"}
EntityTypes == {"t", "u"}
ObsStrings == {"x", "y"}
RelationTypes == {"r"}
Callers == {"c1", "c2"}

SeqsUpTo(S, n) == UNION {[1..k -> S] : k \in 0..n}

RECURSIVE SumLens(_)
SumLens(ss) == IF ss = <<>> THEN 0 ELSE Len(Head(ss)) + SumLens(Tail(ss))

\* The least of a set of numbers
Min(S) == CHOOSE x \in S : \A y \in S : x <= y

\* The lists of a list, one after the other
RECURSIVE Flatten(_)
Flatten(ss) == IF ss = <<>> THEN <<>> ELSE Head(ss) \o Flatten(Tail(ss))

\* Array.prototype.map
MapSeq(s, F(_)) == [i \in 1..Len(s) |-> F(s[i])]

\* ------------------------------------------------------------------------
\* Data model
\* ------------------------------------------------------------------------
\* interface Entity, as a caller supplies it (the requests of the model
\* create entities without observations; addObservations brings them)
Entity == [name : Names, entityType : EntityTypes,
           observations : {<<>>}]

\* interface Relation, as a caller supplies it
Relation == [from : Names, to : Names, relationType : RelationTypes]

EmptyGraph == [entities |-> <<>>, relations |-> <<>>]

\* The three fields of an entity / a relation, whatever else the object holds
EntityFields(e) ==
    [name |-> e.name, entityType |-> e.entityType, observations |-> e.observations]

RelationFields(r) ==
    [from |-> r.from, to |-> r.to, relationType |-> r.relationType]

\* ------------------------------------------------------------------------
\* On-disk format: one record per line, tagged with "type"
\* ------------------------------------------------------------------------
\* JSON.stringify({ type: "entity", ...e }): the spread of e comes after the
\* tag, so a "type" property of e itself would win over the tag.
EntityLine(e) ==
    [type |-> IF "type" \in DOMAIN e THEN e.type ELSE "entity",
     name |-> e.name, entityType |-> e.entityType, observations |-> e.observations]

RelationLine(r) ==
    [type |-> IF "type" \in DOMAIN r THEN r.type ELSE "relation",
     from |-> r.from, to |-> r.to, relationType |-> r.relationType]

\* Faulty variant of SaveLines: the relation records are written first
SaveLines_RelationsFirst(g) ==
    MapSeq(g.relations, RelationLine) \o MapSeq(g.entities, EntityLine)

\* saveGraph: the lines written, entities first
SaveLines(g) == MapSeq(g.entities, EntityLine) \o MapSeq(g.relations, RelationLine)

\* Faulty variant of ParseLines: the entities come back in reverse order
ParseLines_Reversed(lines) ==
    LET ents == SelectSeq(lines, LAMBDA l : l.type = "entity")
    IN  [entities  |-> [i \in 1..Len(ents) |-> ents[Len(ents) + 1 - i]],
         relations |-> SelectSeq(lines, LAMBDA l : l.type = "relation")]

\* loadGraph: the parsed line is pushed as it is (a cast, the tag stays on it)
ParseLines(lines) ==
    [entities  |-> SelectSeq(lines, LAMBDA l : l.type = "entity"),
     relations |-> SelectSeq(lines, LAMBDA l : l.type = "relation")]

NoFile == [exists |-> FALSE, lines |-> <<>>]

EmptyFile == [exists |-> TRUE, lines |-> <<>>]

\* A stored line that is not JSON: JSON.parse throws on it
Unparsable == [unparsable |-> TRUE]

\* Every line of the file goes through JSON.parse
Parses(f) == \A i \in 1..Len(f.lines) : f.lines[i] # Unparsable

\* Faulty variant of LoadedGraph: the relation records are not read back
LoadedGraph_DropsRelations(f) ==
    IF f.exists THEN [ParseLines(f.lines) EXCEPT !.relations = <<>>] ELSE EmptyGraph

\* loadGraph: ENOENT is an empty graph
LoadedGraph(f) == IF f.exists THEN ParseLines(f.lines) ELSE EmptyGraph

\* rebuildIndexes: entity i is indexed under "<name> <entityType>", each
\* observation under the id "<entityIndex>-<obsIndex>"
BuildIndex(g) ==
    [entity |-> [i \in 1..Len(g.entities) |->
                    <<g.entities[i].name, g.entities[i].entityType>>],
     observation |-> [i \in 1..Len(g.entities) |-> g.entities[i].observations]]

\* ------------------------------------------------------------------------
\* The handlers' computations on the loaded graph
\* ------------------------------------------------------------------------
Contains(s, x) == \E i \in 1..Len(s) : s[i] = x

\* graph.entities.some(existingEntity => existingEntity.name === n)
HasName(ents, n) == \E i \in 1..Len(ents) : ents[i].name = n

\* Faulty variant of NewEntities: the request is appended unfiltered
NewEntities_NoFilter(ents, req) == req

\* createEntities / batchCreate: entities.filter(e => !graph.entities.some(...))
NewEntities(ents, req) == SelectSeq(req, LAMBDA e : ~HasName(ents, e.name))

SameTriple(r1, r2) ==
    r1.from = r2.from /\ r1.to = r2.to /\ r1.relationType = r2.relationType

\* Faulty variant of HasTriple: relationType and to are not compared
HasTriple_FromOnly(rels, r) == \E i \in 1..Len(rels) : rels[i].from = r.from

HasTriple(rels, r) == \E i \in 1..Len(rels) : SameTriple(rels[i], r)

\* createRelations / batchCreate: relations.filter(r => !graph.relations.some(...))
NewRelations(rels, req) == SelectSeq(req, LAMBDA r : ~HasTriple(rels, r))

\* graph.entities.find(e => e.name === n): position of the first entity of
\* that name, 0 for undefined
FindEntity(ents, n) ==
    IF HasName(ents, n)
    THEN CHOOSE i \in 1..Len(ents) :
            ents[i].name = n /\ \A j \in 1..(i - 1) : ents[j].name # n
    ELSE 0

NoError == [thrown |-> FALSE, entityName |-> ""]

\* The error readFile rejects with, and the SyntaxError of JSON.parse
ReadError(code) == [thrown |-> TRUE, code |-> code]

SyntaxError == [thrown |-> TRUE, name |-> "SyntaxError"]

\* new Error(`Entity with name ${o.entityName} not found`)
NotFound(n) == [thrown |-> TRUE, entityName |-> n]

\* o.contents.filter(content => !entity.observations.includes(content))
NewObservations(held, contents) == SelectSeq(contents, LAMBDA c : ~Contains(held, c))

\* Faulty variant of ApplyObservations: an entry whose entity is missing is
\* skipped instead of throwing
RECURSIVE ApplyObservations_SkipMissing(_, _, _)
ApplyObservations_SkipMissing(ents, req, results) ==
    IF req = <<>>
    THEN [entities |-> ents, results |-> results, error |-> NoError]
    ELSE LET o == Head(req)
             i == FindEntity(ents, o.entityName)
         IN  IF i = 0
             THEN ApplyObservations_SkipMissing(ents, Tail(req), results)
             ELSE LET newObs == NewObservations(ents[i].observations, o.contents)
                  IN  ApplyObservations_SkipMissing(
                          [ents EXCEPT ![i].observations = @ \o newObs],
                          Tail(req),
                          Append(results, [entityName |-> o.entityName,
                                           addedObservations |-> newObs]))

\* addObservations / batchCreate: observations.map(o => ...), entry by entry on
\* the graph as the earlier entries left it; the first missing entity throws
RECURSIVE ApplyObservations(_, _, _)
ApplyObservations(ents, req, results) ==
    IF req = <<>>
    THEN [entities |-> ents, results |-> results, error |-> NoError]
    ELSE LET o == Head(req)
             i == FindEntity(ents, o.entityName)
         IN  IF i = 0
             THEN [entities |-> ents, results |-> results,
                   error |-> NotFound(o.entityName)]
             ELSE LET newObs == NewObservations(ents[i].observations, o.contents)
                  IN  ApplyObservations(
                          [ents EXCEPT ![i].observations = @ \o newObs],
                          Tail(req),
                          Append(results, [entityName |-> o.entityName,
                                           addedObservations |-> newObs]))

\* Faulty variant of RemoveEntities: the entities that stay are left without
\* their observations
RemoveEntities_Bare(g, names) ==
    [entities  |-> [i \in 1..Len(SelectSeq(g.entities, LAMBDA e : ~Contains(names, e.name))) |->
                      [SelectSeq(g.entities, LAMBDA e : ~Contains(names, e.name))[i]
                          EXCEPT !.observations = <<>>]],
     relations |-> SelectSeq(g.relations,
                       LAMBDA r : ~Contains(names, r.from) /\ ~Contains(names, r.to))]

\* Faulty variant of RemoveEntities: the cascade looks at "from" only
RemoveEntities_FromOnly(g, names) ==
    [entities  |-> SelectSeq(g.entities, LAMBDA e : ~Contains(names, e.name)),
     relations |-> SelectSeq(g.relations, LAMBDA r : ~Contains(names, r.from))]

\* deleteEntities: both filters
RemoveEntities(g, names) ==
    [entities  |-> SelectSeq(g.entities, LAMBDA e : ~Contains(names, e.name)),
     relations |-> SelectSeq(g.relations,
                       LAMBDA r : ~Contains(names, r.from) /\ ~Contains(names, r.to))]

\* Faulty variant of RemoveObservations: the filter is inverted, the listed
\* strings are the ones kept
RECURSIVE RemoveObservations_KeepListed(_, _)
RemoveObservations_KeepListed(ents, deletions) ==
    IF deletions = <<>>
    THEN ents
    ELSE LET d == Head(deletions)
             i == FindEntity(ents, d.entityName)
         IN  IF i = 0
             THEN RemoveObservations_KeepListed(ents, Tail(deletions))
             ELSE RemoveObservations_KeepListed(
                      [ents EXCEPT ![i].observations =
                          SelectSeq(@, LAMBDA o : Contains(d.observations, o))],
                      Tail(deletions))

\* deleteObservations: deletions.forEach(d => ...)
RECURSIVE RemoveObservations(_, _)
RemoveObservations(ents, deletions) ==
    IF deletions = <<>>
    THEN ents
    ELSE LET d == Head(deletions)
             i == FindEntity(ents, d.entityName)
         IN  IF i = 0
             THEN RemoveObservations(ents, Tail(deletions))
             ELSE RemoveObservations(
                      [ents EXCEPT ![i].observations =
                          SelectSeq(@, LAMBDA o : ~Contains(d.observations, o))],
                      Tail(deletions))

\* deleteRelations: graph.relations.filter(r => !relations.some(...))
RemoveRelations(rels, req) == SelectSeq(rels, LAMBDA r : ~HasTriple(req, r))

NoResult == [entities |-> <<>>, relations |-> <<>>, observations |-> <<>>]

\* Faulty variant of BatchCreate: a missing entity ends the observation step
\* without an error, and the batch is saved as far as it got
BatchCreate_SavesOnError(g, data) ==
    LET created  == NewEntities(g.entities, data.entities)
        ents1    == g.entities \o created
        newRels  == NewRelations(g.relations, data.relations)
        obs      == ApplyObservations(ents1, data.observations, <<>>)
    IN  [graph  |-> [entities |-> obs.entities, relations |-> g.relations \o newRels],
         result |-> [entities |-> SubSeq(obs.entities, Len(g.entities) + 1, Len(ents1)),
                     relations |-> newRels,
                     observations |-> obs.results],
         error  |-> NoError]

\* batchCreate, from the loaded graph g: the graph to save, the three result
\* lists and the error.  createdEntities holds the request objects that were
\* pushed into graph.entities, so it shows them as the observation step left
\* them.
BatchCreate(g, data) ==
    LET created  == NewEntities(g.entities, data.entities)
        ents1    == g.entities \o created
        newRels  == NewRelations(g.relations, data.relations)
        obs      == ApplyObservations(ents1, data.observations, <<>>)
    IN  [graph  |-> [entities |-> obs.entities, relations |-> g.relations \o newRels],
         result |-> [entities |-> SubSeq(obs.entities, Len(g.entities) + 1, Len(ents1)),
                     relations |-> newRels,
                     observations |-> obs.results],
         error  |-> obs.error]

\* ------------------------------------------------------------------------
\* What each mutating handler computes between its load and its save:
\* the graph it saves, the value it returns, the error it throws
\* ------------------------------------------------------------------------
\* Faulty variant of CreateEntitiesOp: the request is returned, not the
\* inserted subset
CreateEntitiesOp_ReturnsRequest(g, entities) ==
    [graph  |-> [g EXCEPT !.entities = @ \o NewEntities(g.entities, entities)],
     result |-> [NoResult EXCEPT !.entities = entities],
     error  |-> NoError]

\* createEntities
CreateEntitiesOp(g, entities) ==
    LET newEntities == NewEntities(g.entities, entities)
    IN  [graph  |-> [g EXCEPT !.entities = @ \o newEntities],
         result |-> [NoResult EXCEPT !.entities = newEntities],
         error  |-> NoError]

\* createRelations
CreateRelationsOp(g, relations) ==
    LET newRelations == NewRelations(g.relations, relations)
    IN  [graph  |-> [g EXCEPT !.relations = @ \o newRelations],
         result |-> [NoResult EXCEPT !.relations = newRelations],
         error  |-> NoError]

\* addObservations
AddObservationsOp(g, observations) ==
    LET obs == ApplyObservations(g.entities, observations, <<>>)
    IN  [graph  |-> [g EXCEPT !.entities = obs.entities],
         result |-> [NoResult EXCEPT !.observations = obs.results],
         error  |-> obs.error]

\* deleteEntities
DeleteEntitiesOp(g, entityNames) ==
    [graph |-> RemoveEntities(g, entityNames), result |-> NoResult, error |-> NoError]

\* deleteObservations
DeleteObservationsOp(g, deletions) ==
    [graph  |-> [g EXCEPT !.entities = RemoveObservations(@, deletions)],
     result |-> NoResult, error |-> NoError]

\* deleteRelations
DeleteRelationsOp(g, relations) ==
    [graph  |-> [g EXCEPT !.relations = RemoveRelations(@, relations)],
     result |-> NoResult, error |-> NoError]

\* ------------------------------------------------------------------------
\* Queries: the full-text indexes and the projections of the loaded graph
\* ------------------------------------------------------------------------
\* The query strings of the model
Queries == {"", " ", "a", "t", "y", "a t"}

\* String.prototype.trim
Trim(q) == IF q = " " THEN "" ELSE q

\* The texts the searched entities hold as observations
Texts == {"x", "xy"}

\* The characters of a string
Chars(str) == [i \in 1..Len(str) |-> SubSeq(str, i, i)]

\* A sequence of characters cut into words at the spaces
RECURSIVE SplitWords(_, _)
SplitWords(chars, word) ==
    IF chars = <<>>
    THEN IF word = <<>> THEN <<>> ELSE <<word>>
    ELSE IF Head(chars) = " "
         THEN (IF word = <<>> THEN <<>> ELSE <<word>>) \o SplitWords(Tail(chars), <<>>)
         ELSE SplitWords(Tail(chars), Append(word, Head(chars)))

\* The words the index encoder splits a string into (cut at whitespace; the
\* strings of the model are lower-case), each word as its sequence of
\* characters
Encode(str) == SplitWords(Chars(str), <<>>)

\* tokenize: "forward": a word is indexed under each of its prefixes
Terms(words) ==
    UNION {{SubSeq(words[i], 1, k) : k \in 1..Len(words[i])} : i \in 1..Len(words)}

\* Index.search on one indexed text: the query has a word, and every word of
\* the query is a term of the text
Matches(query, words) ==
    /\ Encode(query) # <<>>
    /\ \A i \in 1..Len(Encode(query)) : Encode(query)[i] \in Terms(words)

\* this.entityIndex.search(query): positions indexed under `${name} ${entityType}`
EntityMatches(idx, query) ==
    {i \in DOMAIN idx.entity :
        Matches(query, Encode(idx.entity[i][1]) \o Encode(idx.entity[i][2]))}

\* this.observationIndex.search(query), then parseInt(id.split('-')[0]): the
\* entity positions of the matched observations
ObservationMatches(idx, query) ==
    {i \in DOMAIN idx.observation :
        \E j \in 1..Len(idx.observation[i]) :
            Matches(query, Encode(idx.observation[i][j]))}

\* graph.entities.filter((_, index) => allMatchedIndexes.has(index))
MatchedEntities(ents, idx, query) ==
    LET allMatchedIndexes == EntityMatches(idx, query) \cup ObservationMatches(idx, query)
        Keep(i) == IF i \in allMatchedIndexes THEN <<ents[i]>> ELSE <<>>
        F[i \in 0..Len(ents)] == IF i = 0 THEN <<>> ELSE F[i - 1] \o Keep(i)
    IN  F[Len(ents)]

\* Faulty variant of InducedRelations: only "from" is looked up
InducedRelations_FromOnly(rels, filteredEntities) ==
    SelectSeq(rels, LAMBDA r : HasName(filteredEntities, r.from))

\* searchNodes / openNodes: graph.relations.filter(r =>
\* filteredEntityNames.has(r.from) && filteredEntityNames.has(r.to))
InducedRelations(rels, filteredEntities) ==
    SelectSeq(rels, LAMBDA r : HasName(filteredEntities, r.from)
                               /\ HasName(filteredEntities, r.to))

\* readGraph: the loaded graph
ReadGraphOp(g) ==
    [graph |-> g,
     result |-> [NoResult EXCEPT !.entities = g.entities, !.relations = g.relations],
     error |-> NoError]

\* Faulty variant of SearchNodesOp: a blank query is answered with the whole
\* graph
SearchNodesOp_BlankReturnsAll(g, idx, query) ==
    LET filteredEntities ==
            IF Trim(query) = "" THEN g.entities ELSE MatchedEntities(g.entities, idx, query)
    IN  [graph |-> g,
         result |-> [NoResult EXCEPT
                        !.entities = filteredEntities,
                        !.relations = InducedRelations(g.relations, filteredEntities)],
         error |-> NoError]

\* searchNodes, after its load: g is the loaded graph, idx the indexes of the
\* manager.  (limit: 100 is far above the graphs of the model.)
SearchNodesOp(g, idx, query) ==
    IF Trim(query) = ""
    THEN [graph |-> g, result |-> NoResult, error |-> NoError]
    ELSE LET filteredEntities == MatchedEntities(g.entities, idx, query)
         IN  [graph |-> g,
              result |-> [NoResult EXCEPT
                             !.entities = filteredEntities,
                             !.relations = InducedRelations(g.relations,
                                                            filteredEntities)],
              error |-> NoError]

\* Faulty variant of NamedEntities: only the first name asked for is looked up
NamedEntities_FirstOnly(ents, names) ==
    SelectSeq(ents, LAMBDA e : names # <<>> /\ e.name = names[1])

\* openNodes: graph.entities.filter(e => names.includes(e.name))
NamedEntities(ents, names) == SelectSeq(ents, LAMBDA e : Contains(names, e.name))

\* openNodes, after its load
OpenNodesOp(g, names) ==
    LET filteredEntities == NamedEntities(g.entities, names)
    IN  [graph |-> g,
         result |-> [NoResult EXCEPT
                        !.entities = filteredEntities,
                        !.relations = InducedRelations(g.relations, filteredEntities)],
         error |-> NoError]

\* ------------------------------------------------------------------------
\* Numbers.  Every number of findDuplicates is a JavaScript number, an IEEE
\* 754 binary64, and every one of them is finite and not negative.  A number
\* is kept as [m, e] and stands for m * 2^e, where m is zero or has exactly
\* MantissaBits bits.  A mantissa is a natural number written in base 2^14,
\* lowest digit first and without leading zero digits, so that no step of
\* the arithmetic leaves the 32-bit integers.
\* ------------------------------------------------------------------------
DigitBits == 14

Base == 2 ^ DigitBits

MantissaBits == 53

Digit(a, i) == IF i >= 1 /\ i <= Len(a) THEN a[i] ELSE 0

Larger(x, y) == IF x < y THEN y ELSE x

Smaller(x, y) == IF x < y THEN x ELSE y

\* Without the leading zero digits
BigNorm(a) ==
    SubSeq(a, 1, Cardinality({i \in 1..Len(a) : \E j \in i..Len(a) : a[j] # 0}))

\* The digits of a number given as column sums, each column weighing Base
\* times the one before
RECURSIVE Carried(_, _)
Carried(columns, carry) ==
    IF columns = <<>>
    THEN IF carry = 0 THEN <<>> ELSE <<carry % Base>> \o Carried(<<>>, carry \div Base)
    ELSE <<(Head(columns) + carry) % Base>>
            \o Carried(Tail(columns), (Head(columns) + carry) \div Base)

BigAdd(a, b) ==
    BigNorm(Carried([k \in 1..Larger(Len(a), Len(b)) |-> Digit(a, k) + Digit(b, k)], 0))

\* a - b, for a >= b: a and the complement of b to Base^Len(a), without the
\* carry out of the highest digit
BigSub(a, b) ==
    BigNorm(SubSeq(Carried([k \in 1..Len(a) |-> a[k] + Base - 1 - Digit(b, k)], 1),
                   1, Len(a)))

BigLess(a, b) ==
    \/ Len(a) < Len(b)
    \/ /\ Len(a) = Len(b)
       /\ \E i \in 1..Len(a) :
            a[i] < b[i] /\ \A j \in (i + 1)..Len(a) : a[j] = b[j]

BigTimesDigit(a, d) == BigNorm(Carried([i \in 1..Len(a) |-> a[i] * d], 0))

RECURSIVE SumSeq(_)
SumSeq(s) == IF s = <<>> THEN 0 ELSE Head(s) + SumSeq(Tail(s))

BigMul(a, b) ==
    LET column(k) == SumSeq([i \in 1..Len(a) |-> a[i] * Digit(b, k - i + 1)])
    IN  BigNorm(Carried([k \in 1..(Len(a) + Len(b) - 1) |-> column(k)], 0))

BigSquare(a) == BigMul(a, a)

\* a * 2^s, for s < DigitBits
ShiftUp(a, s) ==
    [i \in 1..(Len(a) + 1) |->
        ((Digit(a, i) * 2 ^ s) % Base) + (Digit(a, i - 1) \div 2 ^ (DigitBits - s))]

\* a * 2^k
BigShiftLeft(a, k) ==
    BigNorm([i \in 1..(k \div DigitBits) |-> 0] \o ShiftUp(a, k % DigitBits))

\* b \div 2^s, for s < DigitBits
ShiftDown(b, s) ==
    [i \in 1..Len(b) |->
        (b[i] \div 2 ^ s) + (Digit(b, i + 1) % 2 ^ s) * 2 ^ (DigitBits - s)]

\* a \div 2^k
BigShiftRight(a, k) ==
    BigNorm(ShiftDown(SubSeq(a, k \div DigitBits + 1, Len(a)), k % DigitBits))

BitLen(a) ==
    IF a = <<>> THEN 0
    ELSE DigitBits * (Len(a) - 1)
            + Cardinality({k \in 0..(DigitBits - 1) : 2 ^ k <= a[Len(a)]})

\* The largest digit d with d*b <= r, for r < b * Base.  The highest digit
\* of b bounds it from both sides; within the bounds it is counted out.
DigitBetween(r, b, low, high) ==
    low + Cardinality({d \in (low + 1)..high : ~BigLess(r, BigTimesDigit(b, d))})

DigitBelow(r, b, top) ==
    DigitBetween(r, b, top \div (b[Len(b)] + 1), Smaller(top \div b[Len(b)], Base - 1))

QuotientDigit(r, b) == DigitBelow(r, b, Digit(r, Len(b)) + Base * Digit(r, Len(b) + 1))

\* The next digit of a brought down to the remainder of d
BroughtDown(d, digit) == [d EXCEPT !.r = BigNorm(<<digit>> \o @)]

\* One more digit of the quotient, taken from the remainder of d
DivStep(d, b) ==
    [d EXCEPT !.q = BigNorm(<<QuotientDigit(d.r, b)>> \o @),
              !.r = BigSub(@, BigTimesDigit(b, QuotientDigit(d.r, b)))]

\* Long division, one digit of the quotient at a time, from the highest
\* digit of a down to digit i: [q, r] with q*b + r the digits i.. of a
RECURSIVE BigDivFrom(_, _, _)
BigDivFrom(a, b, i) ==
    IF i + Len(b) - 1 > Len(a)
    THEN [q |-> <<>>, r |-> BigNorm(SubSeq(a, i, Len(a)))]
    ELSE DivStep(BroughtDown(BigDivFrom(a, b, i + 1), a[i]), b)

\* d * Base^i
AtDigit(d, i) == [j \in 1..i |-> 0] \o <<d>>

\* The bits of weight unit and more of the largest digit d with
\* (q + d * Base^i)^2 <= a, counted out two bits at a time
RECURSIVE RootDigit(_, _, _, _)
RootDigit(a, q, i, unit) ==
    IF unit >= Base THEN 0
    ELSE LET high == RootDigit(a, q, i, 4 * unit)
         IN  high + unit * Cardinality({d \in 1..3 :
                ~BigLess(a, BigSquare(BigAdd(q, AtDigit(high + unit * d, i))))})

\* The root above digit i, which is zero or longer than i + 1 digits, with
\* digit i of the root
RootStep(a, above, i) ==
    IF Len(above) > i THEN [above EXCEPT ![i + 1] = RootDigit(a, above, i, 1)]
    ELSE IF RootDigit(a, above, i, 1) = 0 THEN <<>>
    ELSE AtDigit(RootDigit(a, above, i, 1), i)

\* The square root, one digit at a time, from the highest digit down to
\* digit i + 1: the largest multiple q of Base^i with q*q <= a
RECURSIVE BigRootFrom(_, _)
BigRootFrom(a, i) ==
    IF 2 * i >= Len(a) THEN <<>> ELSE RootStep(a, BigRootFrom(a, i + 1), i)

Zero == [m |-> <<>>, e |-> 0]

\* q, or the next number up: rem is what was cut off below q and half the
\* half of a unit of q.  Round to nearest, ties to even
RoundUp(q, rem, half, inexact) ==
    IF BigLess(half, rem) \/ (rem = half /\ (inexact \/ q[1] % 2 = 1))
    THEN BigAdd(q, <<1>>)
    ELSE q

\* m * 2^e, where rounding up may have carried m into one bit more
Renormalized(m, e) ==
    IF BitLen(m) > MantissaBits
    THEN [m |-> BigShiftRight(m, 1), e |-> e + 1]
    ELSE [m |-> m, e |-> e]

\* n * 2^e rounded where n has cut bits more than a mantissa and q is n
\* without them
RoundFrom(n, q, cut, e, inexact) ==
    Renormalized(RoundUp(q, BigSub(n, BigShiftLeft(q, cut)),
                         BigShiftLeft(<<1>>, cut - 1), inexact),
                 e + cut)

RoundBits(n, e, inexact, cut) ==
    IF n = <<>> THEN Zero
    ELSE IF cut <= 0 THEN [m |-> BigShiftLeft(n, 0 - cut), e |-> e + cut]
    ELSE RoundFrom(n, BigShiftRight(n, cut), cut, e, inexact)

\* Round to nearest, ties to even: the binary64 nearest to (n + s) * 2^e,
\* where s is 0, or lies strictly between 0 and 1 if inexact
RoundToDouble(n, e, inexact) == RoundBits(n, e, inexact, BitLen(n) - MantissaBits)

\* The number of a mantissa of no more than MantissaBits bits
Exact(a) ==
    IF a = <<>> THEN Zero
    ELSE [m |-> BigShiftLeft(a, MantissaBits - BitLen(a)), e |-> BitLen(a) - MantissaBits]

\* The number an integer converts to
Number(n) == Exact(BigNorm(<<n % Base, (n \div Base) % Base, n \div (Base * Base)>>))

\* x + y
Plus(x, y) ==
    LET e == Smaller(x.e, y.e)
    IN  IF x.m = <<>> THEN y
        ELSE IF y.m = <<>> THEN x
        ELSE RoundToDouble(BigAdd(BigShiftLeft(x.m, x.e - e),
                                  BigShiftLeft(y.m, y.e - e)), e, FALSE)

\* x < y
Less(x, y) ==
    IF y.m = <<>> THEN FALSE
    ELSE IF x.m = <<>> THEN TRUE
    ELSE IF x.e # y.e THEN x.e < y.e ELSE BigLess(x.m, y.m)

\* x - y, for x >= y
Minus(x, y) ==
    LET e == Smaller(x.e, y.e)
    IN  IF x.m = <<>> \/ y.m = <<>> THEN x
        ELSE RoundToDouble(BigSub(BigShiftLeft(x.m, x.e - e),
                                  BigShiftLeft(y.m, y.e - e)), e, FALSE)

\* x * y
Times(x, y) ==
    IF x.m = <<>> \/ y.m = <<>> THEN Zero
    ELSE RoundToDouble(BigMul(x.m, y.m), x.e + y.e, FALSE)

\* The bits a quotient or a root is computed to beyond its mantissa
GuardBits == 56

\* The number of a quotient d of mantissas with its remainder
Quotient(d, e) == RoundToDouble(d.q, e, d.r # <<>>)

\* x / y, for y > 0
Over(x, y) ==
    CASE y.m # <<>> /\ x.m = <<>> -> Zero
      [] y.m # <<>> /\ x.m # <<>> ->
            Quotient(BigDivFrom(BigShiftLeft(x.m, GuardBits), y.m, 1),
                     x.e - y.e - GuardBits)

\* The number of the root q of n, rounded down
Root(n, q, e) == RoundToDouble(q, e, BigSquare(q) # n)

RootOf(n, e) == Root(n, BigRootFrom(n, 0), e)

\* The bits the mantissa is shifted up by before its root is taken, which
\* leave an even exponent
RootShift(x) == IF x.e % 2 = 0 THEN GuardBits ELSE GuardBits + 1

\* Math.sqrt
Sqrt(x) ==
    IF x.m = <<>> THEN Zero
    ELSE RootOf(BigShiftLeft(x.m, RootShift(x)), (x.e - RootShift(x)) \div 2)

\* A decimal literal of two places, such as 0.95: the number nearest to it
Hundredths(n) == Over(Number(n), Number(100))

\* 1 = 2^52 * 2^-52
One == [m |-> <<0, 0, 0, 2 ^ 10>>, e |-> -52]

\* ------------------------------------------------------------------------
\* The similarity measures of findDuplicates.  They work on a string as the
\* sequence of its characters.
\* ------------------------------------------------------------------------
\* String.prototype.toLowerCase, character by character
ToLowerCase(c) ==
    LET upper == "ABCDEFGHIJKLMNOPQRSTUVWXYZ"
        lower == "abcdefghijklmnopqrstuvwxyz"
    IN  IF \E i \in 1..Len(upper) : SubSeq(upper, i, i) = c
        THEN LET i == CHOOSE i \in 1..Len(upper) : SubSeq(upper, i, i) = c
             IN  SubSeq(lower, i, i)
        ELSE c

LowerCase(chars) == [i \in 1..Len(chars) |-> ToLowerCase(chars[i])]

\* String.prototype.split(/\s+/): the words between the runs of spaces; a
\* string that starts or ends with a space has an empty first or last word
SplitSpaces(chars) ==
    IF chars = <<>> THEN << <<>> >>
    ELSE (IF Head(chars) = " " THEN << <<>> >> ELSE <<>>)
            \o SplitWords(chars, <<>>)
            \o (IF chars[Len(chars)] = " " THEN << <<>> >> ELSE <<>>)

\* Array.prototype.join(' ')
RECURSIVE JoinWords(_)
JoinWords(words) ==
    IF Len(words) <= 1 THEN (IF words = <<>> THEN <<>> ELSE words[1])
    ELSE words[1] \o <<" ">> \o JoinWords(Tail(words))

\* Faulty variant of FillRow: the characters are compared as they are
RECURSIVE FillRow_CaseSensitive(_, _, _, _)
FillRow_CaseSensitive(above, c, str2, row) ==
    IF Len(row) > Len(str2) THEN row
    ELSE FillRow_CaseSensitive(above, c, str2,
            Append(row, Smaller(Smaller(above[Len(row) + 1] + 1, row[Len(row)] + 1),
                                above[Len(row)]
                                    + (IF c = str2[Len(row)] THEN 0 ELSE 1))))

\* The rest of a row of the distance matrix: row holds matrix[i][0..j-1],
\* so that j is its length, above is matrix[i-1] and c is str1[i-1]
RECURSIVE FillRow(_, _, _, _)
FillRow(above, c, str2, row) ==
    IF Len(row) > Len(str2) THEN row
    ELSE FillRow(above, c, str2,
            Append(row, Smaller(Smaller(above[Len(row) + 1] + 1, row[Len(row)] + 1),
                                above[Len(row)]
                                    + (IF ToLowerCase(c) = ToLowerCase(str2[Len(row)])
                                       THEN 0 ELSE 1))))

\* Row i of the distance matrix
RECURSIVE MatrixRow(_, _, _)
MatrixRow(str1, str2, i) ==
    IF i = 0 THEN [j \in 1..(Len(str2) + 1) |-> j - 1]
    ELSE FillRow(MatrixRow(str1, str2, i - 1), str1[i], str2, <<i>>)

\* calculateSimilarity
calculateSimilarity(str1, str2) ==
    IF str1 = str2 THEN One
    ELSE IF Larger(Len(str1), Len(str2)) = 0 THEN One
    ELSE Minus(One, Over(Number(MatrixRow(str1, str2, Len(str1))[Len(str2) + 1]),
                         Number(Larger(Len(str1), Len(str2)))))

commonWords ==
    {Chars(w) : w \in
        {"the", "a", "an", "and", "or", "but", "in", "on", "at", "to", "for", "of",
         "with", "by", "is", "are", "was", "were", "be", "been", "have", "has",
         "had", "do", "does", "did", "will", "would", "could", "should", "may",
         "might", "must", "can"}}

\* extractKeywords
extractKeywords(text) ==
    SelectSeq(SplitSpaces(LowerCase(text)),
              LAMBDA word : Len(word) > 2 /\ word \notin commonWords)

\* The number of times a word occurs in a list
Count(words, word) == Cardinality({i \in 1..Len(words) : words[i] = word})

\* Without the repeated occurrences, in the order of the first ones (the
\* order of the keys of an object and of the elements of a Set)
RECURSIVE Keys(_)
Keys(words) ==
    IF words = <<>> THEN <<>>
    ELSE LET front == Keys(SubSeq(words, 1, Len(words) - 1))
             last == words[Len(words)]
         IN  IF Contains(front, last) THEN front ELSE Append(front, last)

\* Math.sqrt of the sum of the squared frequencies
SquaredFrequencies(keywords, keys) ==
    [i \in 1..Len(keys) |-> Count(keywords, keys[i]) * Count(keywords, keys[i])]

Norm(keywords) == Sqrt(Number(SumSeq(SquaredFrequencies(keywords, Keys(keywords)))))

\* The normalized frequency of each of allWords in keywords
NormalizedFrequencies(keywords, allWords) ==
    LET norm == Norm(keywords)
    IN  [i \in 1..Len(allWords) |->
            IF Count(keywords, allWords[i]) # 0
            THEN Over(Number(Count(keywords, allWords[i])), norm)
            ELSE Zero]

\* dotProduct of two vectors of the same length
RECURSIVE DotProduct(_, _)
DotProduct(tf1Norm, tf2Norm) ==
    IF tf1Norm = <<>> \/ tf2Norm = <<>> THEN Zero
    ELSE Plus(DotProduct(SubSeq(tf1Norm, 1, Len(tf1Norm) - 1),
                         SubSeq(tf2Norm, 1, Len(tf2Norm) - 1)),
              Times(tf1Norm[Len(tf1Norm)], tf2Norm[Len(tf2Norm)]))

\* The cosine of the frequencies of two lists of keywords, over allWords
Cosine(keywords1, keywords2, allWords) ==
    DotProduct(NormalizedFrequencies(keywords1, allWords),
               NormalizedFrequencies(keywords2, allWords))

KeywordSimilarity(keywords1, keywords2) ==
    IF keywords1 = <<>> /\ keywords2 = <<>> THEN One
    ELSE IF keywords1 = <<>> \/ keywords2 = <<>> THEN Zero
    ELSE Cosine(keywords1, keywords2, Keys(keywords1 \o keywords2))

calculateTFIDFSimilarity(str1, str2) ==
    KeywordSimilarity(extractKeywords(str1), extractKeywords(str2))

\* calculateSemanticSimilarity
calculateSemanticSimilarity(str1, str2) ==
    Plus(Times(calculateSimilarity(str1, str2), Hundredths(70)),
         Times(calculateTFIDFSimilarity(str1, str2), Hundredths(30)))

\* The part of name that /^(p1|p2|...)_/i matches, as its length
PrefixLen(name, prefixes) ==
    LET found == {w \in prefixes :
                    /\ Len(name) > Len(w)
                    /\ LowerCase(SubSeq(name, 1, Len(w))) = Chars(w)
                    /\ name[Len(w) + 1] = "_"}
    IN  IF found = {} THEN 0 ELSE Len(CHOOSE w \in found : TRUE) + 1

\* The part of name that /_(s1|s2|...)$/i matches, as its length
SuffixLen(name, suffixes) ==
    LET found == {w \in suffixes :
                    /\ Len(name) > Len(w)
                    /\ LowerCase(SubSeq(name, Len(name) - Len(w) + 1, Len(name))) = Chars(w)
                    /\ name[Len(name) - Len(w)] = "_"}
    IN  IF found = {} THEN 0 ELSE Len(CHOOSE w \in found : TRUE) + 1

\* name.replace(/([a-z])([A-Z])/g, '$1 $2')
RECURSIVE SplitCamelCase(_)
SplitCamelCase(name) ==
    IF Len(name) <= 1 THEN name
    ELSE IF /\ name[1] \in {SubSeq("abcdefghijklmnopqrstuvwxyz", i, i) : i \in 1..26}
            /\ ToLowerCase(name[2]) # name[2]
         THEN <<name[1], " ">> \o SplitCamelCase(Tail(name))
         ELSE <<name[1]>> \o SplitCamelCase(Tail(name))

\* normalizeEntityName
\* name.replace(/^(get|set|...)_/i, '')
WithoutPrefix(name) ==
    SubSeq(name,
           PrefixLen(name, {"get", "set", "is", "has", "can", "should", "will", "did",
                            "does", "do"}) + 1,
           Len(name))

\* name.replace(/_(getter|setter|...)$/i, '')
WithoutSuffix(name) ==
    SubSeq(name, 1,
           Len(name) - SuffixLen(name, {"getter", "setter", "handler", "manager",
                                        "service", "util", "utils"}))

\* normalizeEntityName
normalizeEntityName(name) == LowerCase(SplitCamelCase(WithoutSuffix(WithoutPrefix(name))))

synonymMap(word) ==
    CASE word = Chars("create") -> Chars("make")
      [] word = Chars("make")   -> Chars("create")
      [] word = Chars("delete") -> Chars("remove")
      [] word = Chars("remove") -> Chars("delete")
      [] word = Chars("find")   -> Chars("search")
      [] word = Chars("search") -> Chars("find")
      [] word = Chars("update") -> Chars("modify")
      [] word = Chars("modify") -> Chars("update")
      [] word = Chars("get")    -> Chars("fetch")
      [] word = Chars("fetch")  -> Chars("get")
      [] OTHER                  -> word

\* applySynonyms
applySynonyms(text) ==
    LET words == SplitSpaces(LowerCase(text))
    IN  JoinWords([i \in 1..Len(words) |-> synonymMap(words[i])])

\* ------------------------------------------------------------------------
\* findDuplicates
\* ------------------------------------------------------------------------
\* A threshold is held as the caller wrote it, in hundredths (80 for 0.8)
defaultOptions ==
    [entityNameSimilarityThreshold |-> 80, considerEntityType |-> TRUE,
     observationSimilarityThreshold |-> 70, checkExistingGraph |-> FALSE,
     semanticMatchingEnabled |-> FALSE, preset |-> "standard"]

presetConfigs(preset) ==
    CASE preset = "strict" ->
            [entityNameSimilarityThreshold |-> 95, observationSimilarityThreshold |-> 90,
             semanticMatchingEnabled |-> FALSE]
      [] preset = "standard" ->
            [entityNameSimilarityThreshold |-> 80, observationSimilarityThreshold |-> 70,
             semanticMatchingEnabled |-> FALSE]
      [] preset = "loose" ->
            [entityNameSimilarityThreshold |-> 60, observationSimilarityThreshold |-> 50,
             semanticMatchingEnabled |-> TRUE]
      [] OTHER -> <<>>      \* no such preset: nothing is spread

\* { ...f, ...g }
Spread(f, g) == [k \in DOMAIN f \cup DOMAIN g |-> IF k \in DOMAIN g THEN g[k] ELSE f[k]]

\* Faulty variant of MergedOptions: the preset is spread last
MergedOptions_PresetLast(options) ==
    Spread(Spread(defaultOptions, options),
           presetConfigs(IF "preset" \in DOMAIN options
                         THEN options["preset"] ELSE defaultOptions.preset))

\* mergedOptions: the defaults, then the preset, then the options supplied
MergedOptions(options) ==
    Spread(Spread(defaultOptions,
                  presetConfigs(IF "preset" \in DOMAIN options
                                THEN options["preset"] ELSE defaultOptions.preset)),
           options)

\* The similarity of two names, or of two observations
TextSimilarity(o, str1, str2) ==
    IF o["semanticMatchingEnabled"]
    THEN calculateSemanticSimilarity(applySynonyms(normalizeEntityName(Chars(str1))),
                                     applySynonyms(normalizeEntityName(Chars(str2))))
    ELSE calculateSimilarity(Chars(str1), Chars(str2))

\* The similarity of two entity types, or of two relation types
TypeSimilarity(o, str1, str2) ==
    IF o["semanticMatchingEnabled"]
    THEN calculateSemanticSimilarity(Chars(str1), Chars(str2))
    ELSE calculateSimilarity(Chars(str1), Chars(str2))

\* The similarity of two ends of relations
EndSimilarity(o, str1, str2) ==
    IF o["semanticMatchingEnabled"]
    THEN calculateSemanticSimilarity(normalizeEntityName(Chars(str1)),
                                     normalizeEntityName(Chars(str2)))
    ELSE calculateSimilarity(Chars(str1), Chars(str2))

\* matchType, given whether the compared values are identical and the
\* similarities that were computed for them
MatchType(o, identical, similarities) ==
    IF identical THEN "exact"
    ELSE IF /\ o["semanticMatchingEnabled"]
            /\ \A i \in 1..Len(similarities) : Less(Hundredths(90), similarities[i])
         THEN "semantic"
         ELSE "fuzzy"

\* Faulty variant of EntityComparison: equal names alone make the duplicate
\* structural
EntityComparison_NameOnly(o, entity, existingEntity, nameSimilarity, typeMatch) ==
    [similarityScore |-> Plus(Times(nameSimilarity, Hundredths(70)),
                              Times(typeMatch, Hundredths(30))),
     matchType |-> MatchType(o, entity.name = existingEntity.name, <<nameSimilarity>>),
     duplicateType |-> IF entity.name = existingEntity.name
                       THEN "structural" ELSE "semantic"]

\* What compareEntities returns, given the two similarities it computed
\* (the text of details, which repeats matchType and the name similarity, is
\* left out)
EntityComparison(o, entity, existingEntity, nameSimilarity, typeMatch) ==
    [similarityScore |-> Plus(Times(nameSimilarity, Hundredths(70)),
                              Times(typeMatch, Hundredths(30))),
     matchType |-> MatchType(o, entity.name = existingEntity.name, <<nameSimilarity>>),
     duplicateType |-> IF /\ entity.name = existingEntity.name
                          /\ entity.entityType = existingEntity.entityType
                       THEN "structural" ELSE "semantic"]

\* The comparison of two entities
CompareEntities(o, entity, existingEntity) ==
    EntityComparison(o, entity, existingEntity,
        TextSimilarity(o, entity.name, existingEntity.name),
        IF o["considerEntityType"]
        THEN TypeSimilarity(o, entity.entityType, existingEntity.entityType)
        ELSE One)

\* What compareRelations returns, given the three similarities it computed
RelationComparison(o, same, fromSimilarity, toSimilarity, typeSimilarity) ==
    [similarityScore |-> Plus(Plus(Times(fromSimilarity, Hundredths(35)),
                                   Times(toSimilarity, Hundredths(35))),
                              Times(typeSimilarity, Hundredths(30))),
     matchType |-> MatchType(o, same, <<fromSimilarity, toSimilarity, typeSimilarity>>),
     duplicateType |-> IF same THEN "structural" ELSE "semantic"]

\* The comparison of two relations
CompareRelations(o, relation, existingRelation) ==
    RelationComparison(o,
        /\ relation.from = existingRelation.from
        /\ relation.to = existingRelation.to
        /\ relation.relationType = existingRelation.relationType,
        EndSimilarity(o, relation.from, existingRelation.from),
        EndSimilarity(o, relation.to, existingRelation.to),
        TypeSimilarity(o, relation.relationType, existingRelation.relationType))

\* What compareObservations returns, given the similarity it computed
ObservationComparison(o, content, existingObservation, similarityScore) ==
    [similarityScore |-> similarityScore,
     matchType |-> MatchType(o, content = existingObservation, <<similarityScore>>),
     duplicateType |-> IF content = existingObservation
                       THEN "structural" ELSE "semantic"]

\* The comparison of two observations
CompareObservations(o, content, existingObservation) ==
    ObservationComparison(o, content, existingObservation,
                          TextSimilarity(o, content, existingObservation))

\* The matches that are pushed: those that reach the threshold
Reaching(matches, threshold) ==
    SelectSeq(matches, LAMBDA d : ~Less(d.similarityScore, Hundredths(threshold)))

\* data.entities against graph.entities
DuplicateEntities(g, o, entities) ==
    Reaching(Flatten([i \in 1..Len(entities) |->
                [j \in 1..Len(g.entities) |->
                    [entity |-> entities[i], existingEntity |-> g.entities[j]]
                        @@ CompareEntities(o, entities[i], g.entities[j])]]),
             o["entityNameSimilarityThreshold"])

\* data.relations against graph.relations
DuplicateRelations(g, o, relations) ==
    Reaching(Flatten([i \in 1..Len(relations) |->
                [j \in 1..Len(g.relations) |->
                    [relation |-> relations[i], existingRelation |-> g.relations[j]]
                        @@ CompareRelations(o, relations[i], g.relations[j])]]),
             o["entityNameSimilarityThreshold"])

\* Faulty variant of ObservationsOf: every entity's observations are compared
ObservationsOf_AnyEntity(g, entityName) ==
    Flatten([i \in 1..Len(g.entities) |-> g.entities[i].observations])

\* The observations a candidate is compared with: those of the first entity
\* of its entityName, none if there is no such entity
ObservationsOf(g, entityName) ==
    IF FindEntity(g.entities, entityName) = 0 THEN <<>>
    ELSE g.entities[FindEntity(g.entities, entityName)].observations

\* data.observations against the observations of their entities
DuplicateObservations(g, o, observations) ==
    Reaching(Flatten(Flatten([i \in 1..Len(observations) |->
                [k \in 1..Len(observations[i].contents) |->
                    [j \in 1..Len(ObservationsOf(g, observations[i].entityName)) |->
                        [entityName |-> observations[i].entityName,
                         observation |-> observations[i].contents[k],
                         existingObservation |->
                            ObservationsOf(g, observations[i].entityName)[j]]
                            @@ CompareObservations(o, observations[i].contents[k],
                                    ObservationsOf(g, observations[i].entityName)[j])]]])),
             o["observationSimilarityThreshold"])

\* Faulty variant of ExistingEntityDuplicates: every entity is compared with
\* every entity
ExistingEntityDuplicates_EveryPair(g, o) ==
    Reaching(Flatten([i \in 1..Len(g.entities) |->
                [j \in 1..Len(g.entities) |->
                    [entity1 |-> g.entities[i], entity2 |-> g.entities[j]]
                        @@ CompareEntities(o, g.entities[i], g.entities[j])]]),
             o["entityNameSimilarityThreshold"])

\* The entities of the graph against each other, each pair once
ExistingEntityDuplicates(g, o) ==
    Reaching(Flatten([i \in 1..Len(g.entities) |->
                [d \in 1..(Len(g.entities) - i) |->
                    [entity1 |-> g.entities[i], entity2 |-> g.entities[i + d]]
                        @@ CompareEntities(o, g.entities[i], g.entities[i + d])]]),
             o["entityNameSimilarityThreshold"])

\* The relations of the graph against each other, each pair once
ExistingRelationDuplicates(g, o) ==
    Reaching(Flatten([i \in 1..Len(g.relations) |->
                [d \in 1..(Len(g.relations) - i) |->
                    [relation1 |-> g.relations[i], relation2 |-> g.relations[i + d]]
                        @@ CompareRelations(o, g.relations[i], g.relations[i + d])]]),
             o["entityNameSimilarityThreshold"])

\* Faulty variant of Statistics: the duplicates within the graph are not
\* counted into the total
Statistics_WithoutExisting(r) ==
    [totalDuplicates |-> Len(r.duplicateEntities) + Len(r.duplicateRelations)
                            + Len(r.duplicateObservations),
     entityDuplicates |-> Len(r.duplicateEntities),
     relationDuplicates |-> Len(r.duplicateRelations),
     observationDuplicates |-> Len(r.duplicateObservations),
     existingEntityDuplicates |-> Len(r.existingDuplicates.entities),
     existingRelationDuplicates |-> Len(r.existingDuplicates.relations)]

\* statistics
Statistics(r) ==
    [totalDuplicates |-> Len(r.duplicateEntities) + Len(r.duplicateRelations)
                            + Len(r.duplicateObservations)
                            + Len(r.existingDuplicates.entities)
                            + Len(r.existingDuplicates.relations),
     entityDuplicates |-> Len(r.duplicateEntities),
     relationDuplicates |-> Len(r.duplicateRelations),
     observationDuplicates |-> Len(r.duplicateObservations),
     existingEntityDuplicates |-> Len(r.existingDuplicates.entities),
     existingRelationDuplicates |-> Len(r.existingDuplicates.relations)]

\* The lists of a report with their statistics
WithStatistics(r) == r @@ [statistics |-> Statistics(r)]

\* The report under the merged options o; existing tells whether the graph
\* is checked against itself
ReportUnder(g, data, o, existing) ==
    WithStatistics(
        [duplicateEntities |-> DuplicateEntities(g, o, data.entities),
         duplicateRelations |-> DuplicateRelations(g, o, data.relations),
         duplicateObservations |-> DuplicateObservations(g, o, data.observations),
         existingDuplicates |->
            IF existing
            THEN [entities |-> ExistingEntityDuplicates(g, o),
                  relations |-> ExistingRelationDuplicates(g, o)]
            ELSE [entities |-> <<>>, relations |-> <<>>]])

CheckExisting(data, o) == o["checkExistingGraph"] \/ data.checkExistingGraph

\* The report of findDuplicates on graph g
DuplicateReport(g, data, options) ==
    ReportUnder(g, data, MergedOptions(options),
                CheckExisting(data, MergedOptions(options)))

\* findDuplicates, after its load: the analysis reads the loaded graph and
\* the request; the graph is left as loaded and never saved
FindDuplicatesOp(g, data, options) ==
    [graph |-> g, result |-> DuplicateReport(g, data, options), error |-> NoError]

\* ------------------------------------------------------------------------
\* Requests
\* ------------------------------------------------------------------------
NoArgs == [entities |-> <<>>, relations |-> <<>>, observations |-> <<>>,
           deletions |-> <<>>, entityNames |-> <<>>, query |-> "", names |-> <<>>,
           checkExistingGraph |-> FALSE, options |-> <<>>]

\* The observation lists of one request entry
Contents == SeqsUpTo(ObsStrings, MaxReq)

ObservationLists ==
    {s \in SeqsUpTo([entityName : Names, contents : Contents], MaxReq) :
        SumLens(MapSeq(s, LAMBDA o : o.contents)) <= MaxReq}

DeletionLists ==
    {s \in SeqsUpTo([entityName : Names, observations : Contents], MaxReq) :
        SumLens(MapSeq(s, LAMBDA d : d.observations)) <= MaxReq}

EntityLists == SeqsUpTo(Entity, MaxReq)

\* Entities of a single type, for the runs that are about observations
PlainEntityLists == SeqsUpTo({e \in Entity : e.entityType = "t"}, MaxReq)

RelationLists == SeqsUpTo(Relation, MaxReq)

NameLists == SeqsUpTo(Names, MaxReq)

\* At most one relation, leaving entity "a"
OneRelationLists == SeqsUpTo({r \in Relation : r.from = "a"}, 1)

BatchLists ==
    {b \in [entities : PlainEntityLists, relations : OneRelationLists,
            observations : ObservationLists] :
        Len(b.entities) + Len(b.relations) + Len(b.observations) <= MaxReq}

CreateEntitiesRequests(lists) ==
    {[op |-> "createEntities", args |-> [NoArgs EXCEPT !.entities = E]] : E \in lists}

CreateRelationsRequests(lists) ==
    {[op |-> "createRelations", args |-> [NoArgs EXCEPT !.relations = R]] : R \in lists}

AddObservationsRequests(lists) ==
    {[op |-> "addObservations", args |-> [NoArgs EXCEPT !.observations = O]] :
        O \in lists}

DeleteEntitiesRequests(lists) ==
    {[op |-> "deleteEntities", args |-> [NoArgs EXCEPT !.entityNames = N]] : N \in lists}

DeleteObservationsRequests(lists) ==
    {[op |-> "deleteObservations", args |-> [NoArgs EXCEPT !.deletions = D]] :
        D \in lists}

DeleteRelationsRequests(lists) ==
    {[op |-> "deleteRelations", args |-> [NoArgs EXCEPT !.relations = R]] : R \in lists}

BatchCreateRequests(lists) ==
    {[op |-> "batchCreate",
      args |-> [NoArgs EXCEPT !.entities = b.entities, !.relations = b.relations,
                              !.observations = b.observations]] : b \in lists}

ReadGraphRequests == {[op |-> "readGraph", args |-> NoArgs]}

SearchNodesRequests(queries) ==
    {[op |-> "searchNodes", args |-> [NoArgs EXCEPT !.query = q]] : q \in queries}

OpenNodesRequests(lists) ==
    {[op |-> "openNodes", args |-> [NoArgs EXCEPT !.names = N]] : N \in lists}

FindDuplicatesRequests == {[op |-> "findDuplicates", args |-> NoArgs]}

\* The entities findDuplicates is asked about and finds stored
Candidate(name, entityType) ==
    [name |-> name, entityType |-> entityType, observations |-> <<>>]

Link(from, to, relationType) == [from |-> from, to |-> to, relationType |-> relationType]

\* What findDuplicates is asked to compare with the graph
DuplicateData ==
    {[NoArgs EXCEPT !.entities = l] :
        l \in {<<Candidate("a", "cat")>>, <<Candidate("a", "cow")>>,
               <<Candidate("redCat", "cat")>>, <<Candidate("is_a", "cat")>>,
               <<Candidate("A", "cat"), Candidate("redCat", "cow")>>}}
    \cup {[NoArgs EXCEPT !.relations = l] :
        l \in {<<Link("a", "a", "r")>>, <<Link("redCat", "a", "r")>>,
               <<Link("is_a", "a", "s"), Link("a", "a", "s")>>}}
    \cup {[NoArgs EXCEPT !.observations = l] :
        l \in {<<[entityName |-> "a", contents |-> <<"x">>]>>,
               <<[entityName |-> "a", contents |-> <<"X", "">>]>>,
               <<[entityName |-> "is_a", contents |-> <<"xy">>],
                 [entityName |-> "b", contents |-> <<"x">>]>>}}
    \cup {NoArgs, [NoArgs EXCEPT !.checkExistingGraph = TRUE]}

\* The options it is given: none, a preset, fields of their own, and both
DuplicateOptions ==
    {<<>>, [preset |-> "strict"], [preset |-> "loose"],
     [semanticMatchingEnabled |-> TRUE],
     [preset |-> "loose", semanticMatchingEnabled |-> FALSE],
     [preset |-> "strict", entityNameSimilarityThreshold |-> 60],
     [considerEntityType |-> FALSE],
     [semanticMatchingEnabled |-> TRUE, entityNameSimilarityThreshold |-> 100],
     [entityNameSimilarityThreshold |-> 0, observationSimilarityThreshold |-> 0,
      checkExistingGraph |-> TRUE],
     [preset |-> "loose", observationSimilarityThreshold |-> 100,
      checkExistingGraph |-> TRUE]}

DuplicateRequests ==
    {[op |-> "findDuplicates", args |-> [d EXCEPT !.options = o]] :
        d \in DuplicateData, o \in DuplicateOptions}

\* Lists of one element
Single(S) == {<<x>> : x \in S}

\* Requests about the structure of the graph: entities of both types, relations
StructureRequests ==
         CreateEntitiesRequests(EntityLists)
    \cup CreateRelationsRequests(RelationLists)
    \cup DeleteEntitiesRequests(NameLists)
    \cup DeleteRelationsRequests(RelationLists)

\* Requests about observations, on a graph of plain entities and one relation
ObservationRequests ==
         CreateEntitiesRequests(PlainEntityLists)
    \cup CreateRelationsRequests(OneRelationLists)
    \cup AddObservationsRequests(ObservationLists)
    \cup DeleteObservationsRequests(DeletionLists)
    \cup DeleteRelationsRequests(OneRelationLists)

\* Mixed batches, and the deletion that makes room for the next one
BatchRequests ==
         BatchCreateRequests(BatchLists)
    \cup DeleteEntitiesRequests(NameLists)

\* The four queries, and the requests that build the graph they are asked on
QueryRequests ==
         ReadGraphRequests
    \cup SearchNodesRequests(Queries)
    \cup OpenNodesRequests(NameLists)
    \cup FindDuplicatesRequests
    \cup CreateEntitiesRequests(EntityLists)
    \cup CreateRelationsRequests(Single(Relation))
    \cup AddObservationsRequests(
            Single([entityName : Names, contents : Single(Texts)]))

\* One request of every public operation
EveryOperation ==
         ReadGraphRequests
    \cup SearchNodesRequests({"a"})
    \cup OpenNodesRequests({<<"a">>})
    \cup FindDuplicatesRequests
    \cup CreateEntitiesRequests({<<[name |-> "b", entityType |-> "t",
                                    observations |-> <<>>]>>})
    \cup CreateRelationsRequests(
            {<<[from |-> "a", to |-> "b", relationType |-> "r"]>>})
    \cup AddObservationsRequests({<<[entityName |-> "a", contents |-> <<"x">>]>>})
    \cup DeleteEntitiesRequests({<<"b">>})
    \cup DeleteObservationsRequests(
            {<<[entityName |-> "a", observations |-> <<"x">>]>>})
    \cup DeleteRelationsRequests(
            {<<[from |-> "a", to |-> "b", relationType |-> "r"]>>})
    \cup BatchCreateRequests(
            {[entities |-> <<[name |-> "a", entityType |-> "u",
                              observations |-> <<>>]>>,
              relations |-> <<>>,
              observations |-> <<[entityName |-> "a", contents |-> <<"y">>]>>]})

\* The requests of two callers that race: one entity each
RaceRequests == CreateEntitiesRequests(Single(Entity))

\* The outcome of a request of the graph operations, run on graph g: the
\* graph it would save (a query saves nothing: the graph is the loaded one),
\* its result and its error
GraphOutcome(g, r) ==
    CASE r.op = "createEntities"     -> CreateEntitiesOp(g, r.args.entities)
      [] r.op = "createRelations"    -> CreateRelationsOp(g, r.args.relations)
      [] r.op = "addObservations"    -> AddObservationsOp(g, r.args.observations)
      [] r.op = "deleteEntities"     -> DeleteEntitiesOp(g, r.args.entityNames)
      [] r.op = "deleteObservations" -> DeleteObservationsOp(g, r.args.deletions)
      [] r.op = "deleteRelations"    -> DeleteRelationsOp(g, r.args.relations)
      [] r.op = "batchCreate"        -> BatchCreate(g, r.args)
      [] r.op = "readGraph"          -> ReadGraphOp(g)
      [] r.op = "searchNodes"        -> SearchNodesOp(g, BuildIndex(g), r.args.query)
      [] r.op = "openNodes"          -> OpenNodesOp(g, r.args.names)

\* The outcome of any request, run on graph g
Outcome(g, r) ==
    IF r.op = "findDuplicates"
    THEN FindDuplicatesOp(g, r.args, r.args.options)
    ELSE GraphOutcome(g, r)

\* The graph a request leaves; findDuplicates leaves the one it loaded,
\* whatever it reports
GraphAfter(g, r) == IF r.op = "findDuplicates" THEN g ELSE GraphOutcome(g, r).graph

\* The graphs the model keeps
WithinBounds(g) ==
    Len(g.entities) + Len(g.relations)
        + SumLens(MapSeq(g.entities, LAMBDA e : e.observations)) <= MaxGraph

\* ------------------------------------------------------------------------
\* State
\* ------------------------------------------------------------------------
VARIABLES
    file,    \* the backing file: whether it exists, and its lines
    index,   \* entityIndex and observationIndex of the manager
    call,    \* per caller: the call in progress (or the last one)
    config,           \* AsyncProcessor: maxConcurrentTasks, taskTimeout, maxRetries
    tasks,            \* the tasks addTask has made; the id of a task is its place
    taskQueue,        \* taskQueue, as the ids of its tasks
    processingTasks,  \* processingTasks: entries of task id and promise, as set
    promises,         \* the promises processTask has returned
    timers,           \* the timers that are set
    waits,            \* the waitForTask calls made
    memoryConfig,        \* MemoryManager: the config it was constructed with
    compressedThoughts,  \* compressedThoughts
    compressionQueue,    \* compressionQueue
    managed              \* the manageThoughtHistory call made, and what it returned

\* The state of the AsyncProcessor of the sequential thinking server
processor == <<config, tasks, taskQueue, processingTasks, promises, timers, waits>>

\* The state of the MemoryManager of the sequential thinking server
manager == <<memoryConfig, compressedThoughts, compressionQueue, managed>>

vars == <<file, index, call, processor, manager>>

\* x || d
OrDefault(x, d) == IF x = 0 THEN d ELSE x

\* new AsyncProcessor(options); an option that is left out is 0 here
Constructed(options) ==
    /\ config = [maxConcurrentTasks |-> OrDefault(options.maxConcurrentTasks, 3),
                 taskTimeout |-> OrDefault(options.taskTimeout, 5000),
                 maxRetries |-> OrDefault(options.maxRetries, 2)]
    /\ tasks = <<>>
    /\ taskQueue = <<>>
    /\ processingTasks = <<>>
    /\ promises = <<>>
    /\ timers = {}
    /\ waits = <<>>

NoOptions == [maxConcurrentTasks |-> 0, taskTimeout |-> 0, maxRetries |-> 0]

\* No manageThoughtHistory call has been made
NotManaged == [called |-> FALSE, thoughts |-> <<>>, valid |-> <<>>, returned |-> <<>>]

\* new MemoryManager(config); a field that is left out is 0 here.  Times are
\* in seconds, qualities in hundredths
ManagerConstructed(c) ==
    /\ memoryConfig = [maxThoughts |-> OrDefault(c.maxThoughts, 100),
                       compressionThreshold |-> OrDefault(c.compressionThreshold, 50),
                       retentionPeriod |-> OrDefault(c.retentionPeriod, 24 * 60 * 60),
                       qualityThreshold |-> OrDefault(c.qualityThreshold, 30)]
    /\ compressedThoughts = <<>>
    /\ compressionQueue = <<>>
    /\ managed = NotManaged

NoConfig == [maxThoughts |-> 0, compressionThreshold |-> 0, retentionPeriod |-> 0,
             qualityThreshold |-> 0]

Idle ==
    [pc |-> "idle", op |-> "none", args |-> NoArgs,
     loaded |-> EmptyGraph,     \* the graph loadGraph returned
     graph |-> EmptyGraph,      \* the graph handed to saveGraph
     result |-> NoResult, error |-> NoError,
     writes |-> 0,              \* writeFile calls of this call
     fileAtCall |-> NoFile,     \* the file when the call was issued
     repeated |-> FALSE]        \* the call repeats the one just completed

\* The manager is constructed with empty indexes; the file is absent or empty
Init ==
    /\ file \in {NoFile, EmptyFile}
    /\ index = BuildIndex(EmptyGraph)
    /\ call = [p \in Callers |-> Idle]
    /\ Constructed(NoOptions)
    /\ ManagerConstructed(NoConfig)

\* ------------------------------------------------------------------------
\* Steps of a call
\* ------------------------------------------------------------------------
\* A caller issues a request: the handler runs up to its readFile
Call(p, requests) ==
    /\ call[p].pc = "idle"
    /\ \E r \in requests :
          /\ Parses(file) => WithinBounds(GraphAfter(LoadedGraph(file), r))
          /\ call' = [call EXCEPT ![p] =
                        [Idle EXCEPT !.pc = "loading", !.op = r.op, !.args = r.args,
                                     !.fileAtCall = file]]
    /\ UNCHANGED <<file, index, processor, manager>>

\* A caller issues the request of the call it has just completed once more
CallAgain(p) ==
    /\ call[p].pc = "done"
    /\ call' = [call EXCEPT ![p] =
                  [Idle EXCEPT !.pc = "loading", !.op = call[p].op,
                               !.args = call[p].args, !.fileAtCall = file,
                               !.repeated = TRUE]]
    /\ UNCHANGED <<file, index, processor, manager>>

\* The caller takes the result, or the error, of its settled call
Return(p) ==
    /\ call[p].pc \in {"done", "failed"}
    /\ call' = [call EXCEPT ![p] = Idle]
    /\ UNCHANGED <<file, index, processor, manager>>

\* Faulty variant of LoadGraph: a missing file is an error like any other
LoadGraph_MissingFileThrows(p) ==
    /\ call[p].pc = "loading"
    /\ Parses(file)
    /\ IF file.exists
       THEN /\ call' = [call EXCEPT ![p].pc = "loaded", ![p].loaded = LoadedGraph(file)]
            /\ index' = BuildIndex(LoadedGraph(file))
       ELSE /\ call' = [call EXCEPT ![p].pc = "failed", ![p].error = ReadError("ENOENT")]
            /\ index' = index
    /\ UNCHANGED <<file, processor, manager>>

\* loadGraph: readFile completes, the lines are parsed, the indexes rebuilt
LoadGraph(p) ==
    /\ call[p].pc = "loading"
    /\ Parses(file)
    /\ LET g == LoadedGraph(file)
       IN  /\ call' = [call EXCEPT ![p].pc = "loaded", ![p].loaded = g]
           /\ index' = BuildIndex(g)
    /\ UNCHANGED <<file, processor, manager>>

\* Faulty variant of Write: the graph is merged into what the file holds by
\* now instead of replacing it
Write_Merging(p, out) ==
    LET now    == LoadedGraph(file)
        merged == [entities  |-> now.entities
                                   \o NewEntities(now.entities, out.graph.entities),
                   relations |-> now.relations
                                   \o NewRelations(now.relations, out.graph.relations)]
    IN  /\ WithinBounds(out.graph)
        /\ file' = [exists |-> TRUE, lines |-> SaveLines(merged)]
        /\ call' = [call EXCEPT ![p].pc = "written", ![p].graph = out.graph,
                                ![p].result = out.result,
                                ![p].writes = @ + 1]
        /\ UNCHANGED <<index, processor, manager>>

\* The handler's computation up to and including saveGraph's writeFile
Write(p, out) ==
    /\ WithinBounds(out.graph)
    /\ file' = [exists |-> TRUE, lines |-> SaveLines(out.graph)]
    /\ call' = [call EXCEPT ![p].pc = "written", ![p].graph = out.graph,
                            ![p].result = out.result,
                            ![p].writes = @ + 1]
    /\ UNCHANGED <<index, processor, manager>>

\* The handler throws: the promise rejects, nothing is saved
Throw(p, out) ==
    /\ call' = [call EXCEPT ![p].pc = "failed", ![p].error = out.error]
    /\ UNCHANGED <<file, index, processor, manager>>

\* The errors a load of file f can end in, other than ENOENT: readFile
\* rejects, or a line of the data read does not parse
LoadErrors(f) == {ReadError("EACCES")} \cup (IF Parses(f) THEN {} ELSE {SyntaxError})

\* Faulty variant of LoadThrows: a file that does not parse is taken for a
\* missing one
LoadThrows_EmptyGraph(p) ==
    /\ call[p].pc = "loading"
    /\ file.exists
    /\ \/ Throw(p, [error |-> ReadError("EACCES")])
       \/ /\ ~Parses(file)
          /\ call' = [call EXCEPT ![p].pc = "loaded", ![p].loaded = EmptyGraph]
          /\ index' = BuildIndex(EmptyGraph)
          /\ UNCHANGED <<file, processor, manager>>

\* loadGraph throws: the catch block rethrows what is not ENOENT, before any
\* index is rebuilt, and the handler's await rejects
LoadThrows(p) ==
    /\ call[p].pc = "loading"
    /\ file.exists
    /\ \E e \in LoadErrors(file) : Throw(p, [error |-> e])

\* A query returns: nothing is saved
Answer(p, out) ==
    /\ call' = [call EXCEPT ![p].pc = "done", ![p].result = out.result]
    /\ UNCHANGED <<file, index, processor, manager>>

\* Faulty variant of ReadGraph: the loaded graph is saved back
ReadGraph_Saves(p) ==
    /\ call[p].pc = "loaded" /\ call[p].op = "readGraph"
    /\ Write(p, ReadGraphOp(call[p].loaded))

ReadGraph(p) ==
    /\ call[p].pc = "loaded" /\ call[p].op = "readGraph"
    /\ Answer(p, ReadGraphOp(call[p].loaded))

\* searchNodes searches the indexes the manager holds when it resumes
SearchNodes(p) ==
    /\ call[p].pc = "loaded" /\ call[p].op = "searchNodes"
    /\ Answer(p, SearchNodesOp(call[p].loaded, index, call[p].args.query))

OpenNodes(p) ==
    /\ call[p].pc = "loaded" /\ call[p].op = "openNodes"
    /\ Answer(p, OpenNodesOp(call[p].loaded, call[p].args.names))

FindDuplicates(p) ==
    /\ call[p].pc = "loaded" /\ call[p].op = "findDuplicates"
    /\ Answer(p, FindDuplicatesOp(call[p].loaded, call[p].args, call[p].args.options))

CreateEntities(p) ==
    /\ call[p].pc = "loaded" /\ call[p].op = "createEntities"
    /\ Write(p, CreateEntitiesOp(call[p].loaded, call[p].args.entities))

CreateRelations(p) ==
    /\ call[p].pc = "loaded" /\ call[p].op = "createRelations"
    /\ Write(p, CreateRelationsOp(call[p].loaded, call[p].args.relations))

AddObservations(p) ==
    /\ call[p].pc = "loaded" /\ call[p].op = "addObservations"
    /\ LET out == AddObservationsOp(call[p].loaded, call[p].args.observations)
       IN  IF out.error.thrown THEN Throw(p, out) ELSE Write(p, out)

DeleteEntities(p) ==
    /\ call[p].pc = "loaded" /\ call[p].op = "deleteEntities"
    /\ Write(p, DeleteEntitiesOp(call[p].loaded, call[p].args.entityNames))

DeleteObservations(p) ==
    /\ call[p].pc = "loaded" /\ call[p].op = "deleteObservations"
    /\ Write(p, DeleteObservationsOp(call[p].loaded, call[p].args.deletions))

DeleteRelations(p) ==
    /\ call[p].pc = "loaded" /\ call[p].op = "deleteRelations"
    /\ Write(p, DeleteRelationsOp(call[p].loaded, call[p].args.relations))

BatchCreateCall(p) ==
    /\ call[p].pc = "loaded" /\ call[p].op = "batchCreate"
    /\ LET out == BatchCreate(call[p].loaded, call[p].args)
       IN  IF out.error.thrown THEN Throw(p, out) ELSE Write(p, out)

\* saveGraph after writeFile: the indexes are rebuilt and the call returns
SaveDone(p) ==
    /\ call[p].pc = "written"
    /\ index' = BuildIndex(call[p].graph)
    /\ call' = [call EXCEPT ![p].pc = "done"]
    /\ UNCHANGED <<file, processor, manager>>

\* One caller, awaiting each call before it issues the next, on the
\* structure of the graph
Next ==
    \/ Call("c1", StructureRequests)
    \/ LoadGraph("c1")
    \/ CreateEntities("c1")
    \/ CreateRelations("c1")
    \/ DeleteEntities("c1")
    \/ DeleteRelations("c1")
    \/ SaveDone("c1")
    \/ CallAgain("c1")
    \/ Return("c1")

Spec == Init /\ [][Next]_vars

\* The same caller, on observations
NextObs ==
    \/ Call("c1", ObservationRequests)
    \/ LoadGraph("c1")
    \/ CreateEntities("c1")
    \/ CreateRelations("c1")
    \/ AddObservations("c1")
    \/ DeleteObservations("c1")
    \/ DeleteRelations("c1")
    \/ SaveDone("c1")
    \/ Return("c1")

SpecObs == Init /\ [][NextObs]_vars

\* The same caller, on batches
NextBatch ==
    \/ Call("c1", BatchRequests)
    \/ LoadGraph("c1")
    \/ BatchCreateCall("c1")
    \/ DeleteEntities("c1")
    \/ SaveDone("c1")
    \/ Return("c1")

SpecBatch == Init /\ [][NextBatch]_vars

\* The same caller, on queries
NextQuery ==
    \/ Call("c1", QueryRequests)
    \/ LoadGraph("c1")
    \/ CreateEntities("c1")
    \/ CreateRelations("c1")
    \/ AddObservations("c1")
    \/ ReadGraph("c1")
    \/ SearchNodes("c1")
    \/ OpenNodes("c1")
    \/ FindDuplicates("c1")
    \/ SaveDone("c1")
    \/ Return("c1")

SpecQuery == Init /\ [][NextQuery]_vars

\* What the manager may find on disk when it is constructed: no file, or up
\* to two lines, each a record of entity "a" or a line that is not JSON
FilesOnDisk ==
    {NoFile} \cup
    {[exists |-> TRUE, lines |-> l] :
        l \in SeqsUpTo({EntityLine([name |-> "a", entityType |-> "t",
                                    observations |-> <<>>]), Unparsable}, 2)}

InitOnDisk ==
    /\ file \in FilesOnDisk
    /\ index = BuildIndex(EmptyGraph)
    /\ call = [p \in Callers |-> Idle]
    /\ Constructed(NoOptions)
    /\ ManagerConstructed(NoConfig)

\* The same caller, every operation, on a file that may fail to load
NextLoad ==
    \/ Call("c1", EveryOperation)
    \/ LoadGraph("c1")
    \/ LoadThrows("c1")
    \/ CreateEntities("c1")
    \/ CreateRelations("c1")
    \/ AddObservations("c1")
    \/ DeleteEntities("c1")
    \/ DeleteObservations("c1")
    \/ DeleteRelations("c1")
    \/ BatchCreateCall("c1")
    \/ ReadGraph("c1")
    \/ SearchNodes("c1")
    \/ OpenNodes("c1")
    \/ FindDuplicates("c1")
    \/ SaveDone("c1")
    \/ Return("c1")

SpecLoad == InitOnDisk /\ [][NextLoad]_vars

\* The graphs findDuplicates is asked about, as earlier calls saved them
GraphsOnDisk ==
    {g \in
        {EmptyGraph,
         [entities |-> <<[Candidate("a", "cat") EXCEPT !.observations = <<"x", "xy">>]>>,
          relations |-> <<>>],
         [entities |-> <<Candidate("a", "cat"), Candidate("redCat", "cat")>>,
          relations |-> <<Link("redCat", "a", "r")>>],
         [entities |-> <<[Candidate("is_a", "cow") EXCEPT !.observations = <<"X">>],
                         Candidate("a", "cat")>>,
          relations |-> <<>>],
         [entities |-> <<Candidate("a", "cat")>>,
          relations |-> <<Link("a", "a", "r"), Link("a", "a", "s")>>],
         [entities |-> <<Candidate("a", "cat"), Candidate("b", "cat"), Candidate("c", "cow")>>,
          relations |-> <<>>],
         [entities |-> <<>>,
          relations |-> <<Link("a", "b", "r"), Link("b", "a", "r"), Link("a", "a", "s")>>]} :
        WithinBounds(g)}

InitDuplicates ==
    /\ file \in {[exists |-> TRUE, lines |-> SaveLines(g)] : g \in GraphsOnDisk}
    /\ index = BuildIndex(EmptyGraph)
    /\ call = [p \in Callers |-> Idle]
    /\ Constructed(NoOptions)
    /\ ManagerConstructed(NoConfig)

\* The same caller, asking for the duplicates of a graph on disk
NextDuplicates ==
    \/ Call("c1", DuplicateRequests)
    \/ LoadGraph("c1")
    \/ FindDuplicates("c1")
    \/ Return("c1")

SpecDuplicates == InitDuplicates /\ [][NextDuplicates]_vars

\* The graphs deleteEntities is asked to cut down, as earlier calls saved
\* them: entities of both types, with and without observations, and
\* relations between them and from a name that is no entity
GraphsToCut ==
    {[entities |-> <<[Candidate("a", "t") EXCEPT !.observations = <<"x">>],
                     Candidate("b", "u"), Candidate("c", "u")>>,
      relations |-> <<Link("b", "a", "r"), Link("c", "b", "r")>>],
     [entities |-> <<Candidate("b", "u"), Candidate("a", "t")>>,
      relations |-> <<Link("a", "a", "r"), Link("a", "b", "r"), Link("a", "a", "s"),
                      Link("d", "a", "r")>>],
     [entities |-> <<Candidate("c", "t"), Candidate("b", "t"), Candidate("a", "u")>>,
      relations |-> <<Link("c", "a", "r"), Link("b", "b", "r")>>]}

InitDelete ==
    /\ file \in {[exists |-> TRUE, lines |-> SaveLines(g)] : g \in GraphsToCut}
    /\ index = BuildIndex(EmptyGraph)
    /\ call = [p \in Callers |-> Idle]
    /\ Constructed(NoOptions)
    /\ ManagerConstructed(NoConfig)

\* The same caller, deleting entities by name, "d" being the name of none
NextDelete ==
    \/ Call("c1", DeleteEntitiesRequests(SeqsUpTo({"a", "b", "c", "d"}, MaxReq)))
    \/ LoadGraph("c1")
    \/ DeleteEntities("c1")
    \/ SaveDone("c1")
    \/ Return("c1")

SpecDelete == InitDelete /\ [][NextDelete]_vars

\* The strings whose similarity is asked for: those of at most MaxLen
\* letters, in either case
MaxLen == 2

Alphabet == {"a", "A", "b"}

RECURSIVE StringsUpTo(_)
StringsUpTo(n) ==
    IF n = 0 THEN {""}
    ELSE StringsUpTo(n - 1) \cup {s \o c : s \in StringsUpTo(n - 1), c \in Alphabet}

\* One entity that holds one observation
InitSimilarity ==
    /\ file \in {[exists |-> TRUE,
                  lines |-> SaveLines(
                      [entities |-> <<[Candidate("a", "t") EXCEPT !.observations = <<s>>]>>,
                       relations |-> <<>>])] : s \in StringsUpTo(MaxLen)}
    /\ index = BuildIndex(EmptyGraph)
    /\ call = [p \in Callers |-> Idle]
    /\ Constructed(NoOptions)
    /\ ManagerConstructed(NoConfig)

\* One candidate observation for that entity, every similarity reported
SimilarityRequests ==
    {[op |-> "findDuplicates",
      args |-> [NoArgs EXCEPT
                    !.observations = <<[entityName |-> "a", contents |-> <<s>>]>>,
                    !.options = [observationSimilarityThreshold |-> 0]]] :
        s \in StringsUpTo(MaxLen)}

\* The same caller, asking for the similarity of two strings
NextSimilarity ==
    \/ Call("c1", SimilarityRequests)
    \/ LoadGraph("c1")
    \/ FindDuplicates("c1")
    \/ Return("c1")

SpecSimilarity == InitSimilarity /\ [][NextSimilarity]_vars

\* Two callers whose calls overlap: the handlers share the file and the
\* indexes and nothing orders them but the completion of their file I/O
NextRace ==
    \E p \in Callers :
        \/ Call(p, RaceRequests)
        \/ LoadGraph(p)
        \/ CreateEntities(p)
        \/ SaveDone(p)
        \/ Return(p)

SpecRace == Init /\ [][NextRace]_vars

\* Faulty variant of Resumed: the completion of a file operation is handled
\* whatever handler is still to run
Resumed_Never == FALSE

\* A handler that "await this.loadGraph()" has resumed is still to run.  It
\* runs as a promise job, and the completion of a file operation is handled
\* only when no job is left
Resumed == \E p \in Callers : call[p].pc = "loaded"

\* The requests of a search that races with the creation of entities
SearchRaceRequests == SearchNodesRequests({"a"}) \cup CreateEntitiesRequests(Single(Entity))

\* Two callers whose calls overlap, one searching while the other creates
NextSearchRace ==
    \E p \in Callers :
        \/ Call(p, SearchRaceRequests)
        \/ ~Resumed /\ LoadGraph(p)
        \/ SearchNodes(p)
        \/ CreateEntities(p)
        \/ ~Resumed /\ SaveDone(p)
        \/ Return(p)

SpecSearchRace == Init /\ [][NextSearchRace]_vars

\* ------------------------------------------------------------------------
\* AsyncProcessor (sequential thinking server)
\* ------------------------------------------------------------------------
MaxTasks == 2        \* most tasks added

TaskTypes == {"quality_evaluation", "no_such_type"}
Priorities == {1, 10}

\* The options the processor is constructed with
ConstructorOptions ==
    {[maxConcurrentTasks |-> c, taskTimeout |-> t, maxRetries |-> r] :
        c \in {1, 2}, t \in {0, 10}, r \in {0, 1}}

\* processQualityEvaluation takes Math.random() * 100 + 50 ms, at least
MinDelay == 50

\* The processor's own state, as one value: what processNextTasks works on
Processor ==
    [tasks |-> tasks, taskQueue |-> taskQueue, processingTasks |-> processingTasks,
     promises |-> promises, timers |-> timers]

\* Faulty variant of SortByPriority: the queue is left in the order of arrival
SortByPriority_Unsorted(ts, queue) == queue

\* Array.prototype.sort((a, b) => b.priority - a.priority): stable, the
\* higher priority first
SortByPriority(ts, queue) ==
    LET before(i, j) ==
            \/ ts[queue[i]].priority > ts[queue[j]].priority
            \/ ts[queue[i]].priority = ts[queue[j]].priority /\ i < j
        place(i) == 1 + Cardinality({j \in 1..Len(queue) : before(j, i)})
    IN  [k \in 1..Len(queue) |-> queue[CHOOSE i \in 1..Len(queue) : place(i) = k]]

\* processingTasks.has / get / set / delete
Has(entries, id) == \E i \in 1..Len(entries) : entries[i].task = id

Get(entries, id) == entries[CHOOSE i \in 1..Len(entries) : entries[i].task = id].promise

Set(entries, id, promise) ==
    IF Has(entries, id)
    THEN [i \in 1..Len(entries) |->
            IF entries[i].task = id THEN [task |-> id, promise |-> promise] ELSE entries[i]]
    ELSE Append(entries, [task |-> id, promise |-> promise])

Delete(entries, id) == SelectSeq(entries, LAMBDA e : e.task # id)

\* A timer: a delay of processing, ended with the promise it belongs to; the
\* removal of a task 100 ms after its promise settled; the interval and the
\* timeout of a waitForTask call
Timer(kind, of) == [kind |-> kind, of |-> of]

\* The ids of tasks and promises are places in "tasks" and "promises".  A
\* place that nothing refers to any more is free, and the next task or
\* promise made takes the first free place, or else a new one.
FreeTask == [type |-> "none", priority |-> 0, retries |-> 0, attempts |-> 0]

FreePromise == [task |-> 0, settled |-> TRUE, success |-> FALSE]

NewId(s, free) ==
    IF Contains(s, free) THEN Min({k \in 1..Len(s) : s[k] = free}) ELSE Len(s) + 1

Put(s, k, v) == IF k <= Len(s) THEN [s EXCEPT ![k] = v] ELSE Append(s, v)

\* processTask(task) up to its first await, and the promise it returns.  A
\* task of a known type waits for its delay.  Any other type throws: while
\* task.retries < maxRetries the task is counted, put back at the head of
\* the queue and processed again at once; the last attempt returns the
\* failure, and the callback of promise.finally sets the timer of removal.
ProcessTask(s, id, maxRetries) ==
    LET promise == NewId(s.promises, FreePromise)
        known == s.tasks[id].type = "quality_evaluation"
        again == IF s.tasks[id].retries < maxRetries
                 THEN maxRetries - s.tasks[id].retries ELSE 0
    IN  IF known
        THEN [s EXCEPT !.tasks[id].attempts = @ + 1,
                       !.promises = Put(@, promise, [task |-> id, settled |-> FALSE,
                                                     success |-> FALSE]),
                       !.timers = @ \cup {Timer("delay", promise)},
                       !.processingTasks = Set(@, id, promise)]
        ELSE [s EXCEPT !.tasks[id].attempts = @ + again + 1,
                       !.tasks[id].retries = @ + again,
                       !.taskQueue = [i \in 1..again |-> id] \o @,
                       !.promises = Put(@, promise, [task |-> id, settled |-> TRUE,
                                                     success |-> FALSE]),
                       !.timers = @ \cup {Timer("remove", promise)},
                       !.processingTasks = Set(@, id, promise)]

\* Faulty variant of ProcessNextTasks: a task is taken while the tasks in
\* processing are no more than maxConcurrentTasks
RECURSIVE ProcessNextTasks_OneMore(_, _)
ProcessNextTasks_OneMore(s, c) ==
    IF Len(s.processingTasks) <= c.maxConcurrentTasks /\ s.taskQueue # <<>>
    THEN ProcessNextTasks_OneMore(
            ProcessTask([s EXCEPT !.taskQueue = Tail(@)], Head(s.taskQueue), c.maxRetries),
            c)
    ELSE s

\* processNextTasks: while there is room and a task is queued, the first
\* task of the queue is taken and processed
RECURSIVE ProcessNextTasks(_, _)
ProcessNextTasks(s, c) ==
    IF Len(s.processingTasks) < c.maxConcurrentTasks /\ s.taskQueue # <<>>
    THEN ProcessNextTasks(
            ProcessTask([s EXCEPT !.taskQueue = Tail(@)], Head(s.taskQueue), c.maxRetries),
            c)
    ELSE s

\* The processor takes the state s
Becomes(s) ==
    /\ tasks' = s.tasks
    /\ taskQueue' = s.taskQueue
    /\ processingTasks' = s.processingTasks
    /\ promises' = s.promises
    /\ timers' = s.timers

\* getTaskStatus
getTaskStatus(taskId) ==
    IF Has(processingTasks, taskId) THEN "processing"
    ELSE IF Contains(taskQueue, taskId) THEN "pending"
    ELSE "not_found"

\* What a waitForTask call resolves with: the result of a promise of
\* processTask, the failure 'Task wait timeout', or null
ResultOf(promise) == [kind |-> "result", promise |-> promise, success |-> promises[promise].success]

WaitTimeout == [kind |-> "timeout", promise |-> 0, success |-> FALSE]

Null == [kind |-> "null", promise |-> 0, success |-> FALSE]

NoValue == [kind |-> "none", promise |-> 0, success |-> FALSE]

\* The processor is constructed; nothing is stored by the memory server
InitAsync ==
    /\ file = NoFile
    /\ index = BuildIndex(EmptyGraph)
    /\ call = [p \in Callers |-> Idle]
    /\ \E options \in ConstructorOptions : Constructed(options)
    /\ ManagerConstructed(NoConfig)

\* addTask: the task is queued, the queue sorted, and processNextTasks run;
\* at most "most" tasks are held at a time
AddTask(type, priority, most) ==
    /\ NewId(tasks, FreeTask) <= most
    /\ LET id == NewId(tasks, FreeTask)
           made == Put(tasks, id, [type |-> type, priority |-> priority, retries |-> 0,
                                   attempts |-> 0])
       IN  Becomes(ProcessNextTasks(
                [Processor EXCEPT !.tasks = made,
                                  !.taskQueue = SortByPriority(made, Append(taskQueue, id))],
                config))
    /\ UNCHANGED <<file, index, call, manager, config, waits>>

\* The delay of a task ends: processTask returns the result, the promise is
\* fulfilled, the callback of promise.finally sets the timer of removal,
\* and the waitForTask calls that wait for the promise resolve with it
DelayEnds(promise) ==
    /\ Timer("delay", promise) \in timers
    /\ promises' = [promises EXCEPT ![promise].settled = TRUE, ![promise].success = TRUE]
    /\ timers' = (timers \ {Timer("delay", promise)}) \cup {Timer("remove", promise)}
    /\ waits' = [w \in 1..Len(waits) |->
                    IF waits[w].state = "awaiting" /\ waits[w].promise = promise
                    THEN [waits[w] EXCEPT !.state = "resolved",
                             !.value = [kind |-> "result", promise |-> promise,
                                        success |-> TRUE]]
                    ELSE waits[w]]
    /\ UNCHANGED <<file, index, call, manager, config, tasks, taskQueue, processingTasks>>

\* Faulty variant of RemovalDue: the entry is deleted and processNextTasks
\* is not run
RemovalDue_Deleted(promise) ==
    /\ Timer("remove", promise) \in timers
    /\ timers' = timers \ {Timer("remove", promise)}
    /\ processingTasks' = Delete(processingTasks, promises[promise].task)
    /\ UNCHANGED <<file, index, call, manager, config, waits, tasks, taskQueue, promises>>

\* The timer set when a promise settled fires: the entry of the task is
\* deleted, whichever promise it holds, and processNextTasks run
RemovalDue(promise) ==
    /\ Timer("remove", promise) \in timers
    /\ Becomes(ProcessNextTasks(
            [Processor EXCEPT !.timers = @ \ {Timer("remove", promise)},
                              !.processingTasks = Delete(@, promises[promise].task)],
            config))
    /\ UNCHANGED <<file, index, call, manager, config, waits>>

\* A wait for a promise: at once resolved if the promise is settled
Awaiting(taskId, promise) ==
    IF promises[promise].settled
    THEN [task |-> taskId, state |-> "resolved", promise |-> promise,
          value |-> ResultOf(promise)]
    ELSE [task |-> taskId, state |-> "awaiting", promise |-> promise, value |-> NoValue]

\* waitForTask: the promise of a task in processing is awaited; for a
\* queued task an interval and a timeout are set; else null is returned.
\* A task is waited for once.
WaitForTask(taskId) ==
    /\ \A w \in 1..Len(waits) : waits[w].task # taskId
    /\ LET w == Len(waits) + 1
       IN  IF Has(processingTasks, taskId)
           THEN /\ waits' = Append(waits, Awaiting(taskId, Get(processingTasks, taskId)))
                /\ timers' = timers
           ELSE IF Contains(taskQueue, taskId)
           THEN /\ waits' = Append(waits, [task |-> taskId, state |-> "polling",
                                           promise |-> 0, value |-> NoValue])
                /\ timers' = timers \cup {Timer("interval", w), Timer("timeout", w)}
           ELSE /\ waits' = Append(waits, [task |-> taskId, state |-> "resolved",
                                           promise |-> 0, value |-> Null])
                /\ timers' = timers
    /\ UNCHANGED <<file, index, call, manager, config, tasks, taskQueue, processingTasks, promises>>

\* The interval of a waitForTask call: once the task has a promise, the
\* interval is cleared and the call resolves with the promise
IntervalDue(w) ==
    /\ Timer("interval", w) \in timers
    /\ Has(processingTasks, waits[w].task)
    /\ timers' = timers \ {Timer("interval", w)}
    /\ waits' = [waits EXCEPT ![w] =
                    Awaiting(waits[w].task, Get(processingTasks, waits[w].task))]
    /\ UNCHANGED <<file, index, call, manager, config, tasks, taskQueue, processingTasks, promises>>

\* The timeout of a waitForTask call: the interval is cleared and the call,
\* unless it has resolved, resolves with the failure 'Task wait timeout'
TimeoutDue(w) ==
    /\ Timer("timeout", w) \in timers
    /\ timers' = timers \ {Timer("interval", w), Timer("timeout", w)}
    /\ waits' = [waits EXCEPT ![w] =
                    IF @.state = "resolved" THEN @
                    ELSE [@ EXCEPT !.state = "resolved", !.value = WaitTimeout]]
    /\ UNCHANGED <<file, index, call, manager, config, tasks, taskQueue, processingTasks, promises>>

\* cancelTask: the first task of the id is taken out of the queue
CancelTask(taskId) ==
    /\ Contains(taskQueue, taskId)
    /\ LET first == Min({i \in 1..Len(taskQueue) : taskQueue[i] = taskId})
       IN  taskQueue' = SubSeq(taskQueue, 1, first - 1)
                            \o SubSeq(taskQueue, first + 1, Len(taskQueue))
    /\ UNCHANGED <<file, index, call, manager, config, tasks, processingTasks, promises, timers, waits>>

\* cleanup: the promises of the tasks in processing are watched, and a
\* timer is set; one cleanup is under way at a time
Cleanup ==
    /\ processingTasks # <<>>
    /\ \A t \in timers : t.kind # "cleanup"
    /\ timers' = timers \cup {Timer("cleanup", processingTasks[i].promise) :
                                  i \in 1..Len(processingTasks)}
    /\ UNCHANGED <<file, index, call, manager, config, tasks, taskQueue, processingTasks,
                   promises, waits>>

\* The timer of cleanup fires: the entries of the tasks whose watched
\* promise has settled are deleted
CleanupDue ==
    /\ \E t \in timers : t.kind = "cleanup"
    /\ LET completedTasks == {promises[t.of].task :
                                t \in {u \in timers : u.kind = "cleanup"
                                                       /\ promises[u.of].settled}}
       IN  processingTasks' = SelectSeq(processingTasks, LAMBDA e : e.task \notin completedTasks)
    /\ timers' = {t \in timers : t.kind # "cleanup"}
    /\ UNCHANGED <<file, index, call, manager, config, tasks, taskQueue, promises, waits>>

\* A processor in use: tasks are added, waited for and cancelled while the
\* timers fire
NextAsync ==
    \/ \E type \in TaskTypes, priority \in Priorities : AddTask(type, priority, MaxTasks)
    \/ \E promise \in 1..Len(promises) : DelayEnds(promise)
    \/ \E promise \in 1..Len(promises) : RemovalDue(promise)
    \/ \E taskId \in 1..MaxTasks : WaitForTask(taskId)
    \/ \E w \in 1..Len(waits) : IntervalDue(w)
    \/ \E w \in 1..Len(waits) : TimeoutDue(w)
    \/ \E taskId \in 1..MaxTasks : CancelTask(taskId)

SpecAsync == InitAsync /\ [][NextAsync]_vars

\* A processor whose tasks nobody waits for, with one task more, cleaned up
\* now and then
NextQueue ==
    \/ \E type \in TaskTypes, priority \in Priorities : AddTask(type, priority, MaxTasks + 1)
    \/ \E promise \in 1..Len(promises) : DelayEnds(promise)
    \/ \E promise \in 1..Len(promises) : RemovalDue(promise)
    \/ \E taskId \in 1..MaxTasks + 1 : CancelTask(taskId)
    \/ Cleanup
    \/ CleanupDue

\* The processor of that queue: taskTimeout, which only waitForTask reads,
\* is left out
InitQueue ==
    /\ file = NoFile
    /\ index = BuildIndex(EmptyGraph)
    /\ call = [p \in Callers |-> Idle]
    /\ \E options \in {o \in ConstructorOptions : o.taskTimeout = 0} : Constructed(options)
    /\ ManagerConstructed(NoConfig)

SpecQueue == InitQueue /\ [][NextQueue]_vars

\* Nothing refers to the task: it is not queued, has no entry in
\* processingTasks, no timer is set for a promise of it and nobody waits
\* for it
Unreferenced(id) ==
    /\ tasks[id] # FreeTask
    /\ ~Contains(taskQueue, id)
    /\ ~Has(processingTasks, id)
    /\ \A t \in timers : t.kind \in {"delay", "remove", "cleanup"} => promises[t.of].task # id
    /\ \A w \in 1..Len(waits) : waits[w].task # id

\* The task that nothing refers to and its promises are collected: their
\* places are free
Collected(id) ==
    /\ Unreferenced(id)
    /\ tasks' = [tasks EXCEPT ![id] = FreeTask]
    /\ promises' = [p \in 1..Len(promises) |->
                        IF promises[p].task = id THEN FreePromise ELSE promises[p]]
    /\ UNCHANGED <<file, index, call, manager, config, taskQueue, processingTasks, timers, waits>>

\* A processor that is given tasks without end, none of them cancelled:
\* MaxTasks + 1 tasks are held at a time
TaskIds == 1..MaxTasks + 1

PromiseIds == 1..MaxTasks + 1

NextStream ==
    \/ \E priority \in Priorities : AddTask("quality_evaluation", priority, MaxTasks + 1)
    \/ \E promise \in 1..Len(promises) : DelayEnds(promise)
    \/ \E promise \in 1..Len(promises) : RemovalDue(promise)
    \/ \E id \in 1..Len(tasks) : Collected(id)

\* The processor of the stream takes one task at a time; its tasks are of a
\* known type, so that each has one promise
InitStream ==
    /\ file = NoFile
    /\ index = BuildIndex(EmptyGraph)
    /\ call = [p \in Callers |-> Idle]
    /\ Constructed([maxConcurrentTasks |-> 1, taskTimeout |-> 0, maxRetries |-> 1])
    /\ ManagerConstructed(NoConfig)

\* The event loop runs every timer that is due: a delay that is over ends,
\* and a removal that is due is made
SpecStream ==
    /\ InitStream
    /\ [][NextStream]_vars
    /\ \A promise \in PromiseIds :
            WF_vars(DelayEnds(promise)) /\ WF_vars(RemovalDue(promise))

\* ------------------------------------------------------------------------
\* MemoryManager (sequential thinking server)
\* ------------------------------------------------------------------------
MaxThoughts == 4     \* most thoughts of one history

\* Array.prototype.sort on the numbers Key gives: stable, the smaller first
StableSort(s, Key(_)) ==
    LET place(i) == 1 + Cardinality({j \in 1..Len(s) :
                            \/ Key(s[j]) < Key(s[i])
                            \/ Key(s[j]) = Key(s[i]) /\ j < i})
    IN  [k \in 1..Len(s) |-> s[CHOOSE i \in 1..Len(s) : place(i) = k]]

\* thoughts.slice(-n)
LastOf(s, n) == SubSeq(s, Larger(1, Len(s) - n + 1), Len(s))

HasNumber(thoughts, thoughtNumber) ==
    \E i \in 1..Len(thoughts) : thoughts[i].thoughtNumber = thoughtNumber

\* The five scores of a quality, added up
Scores(quality) == quality[1] + quality[2] + quality[3] + quality[4] + quality[5]

cleanupExpiredThoughts(thoughts, now, c) ==
    SelectSeq(thoughts, LAMBDA t : now - t.timestamp < c.retentionPeriod)

\* combined after the thoughts of rest are pushed that it does not hold
RECURSIVE Combined(_, _)
Combined(combined, rest) ==
    IF rest = <<>> THEN combined
    ELSE Combined(IF HasNumber(combined, Head(rest).thoughtNumber) THEN combined
                  ELSE Append(combined, Head(rest)),
                  Tail(rest))

\* The last ten thoughts, and those of no quality or of an average score
\* above qualityThreshold, by thoughtNumber
cleanupLowQualityThoughts(thoughts, c) ==
    StableSort(
        Combined(LastOf(thoughts, 10),
                 SelectSeq(thoughts, LAMBDA t : \/ t.quality = <<>>
                                                \/ Scores(t.quality) > 5 * c.qualityThreshold)),
        LAMBDA t : t.thoughtNumber)

calculateOverallQuality(thought) ==
    IF thought.quality = <<>> THEN 50 ELSE Scores(thought.quality) \div 5

\* compressThought: of the compressed thought the number that its id is
\* made of, the timestamp and the quality are kept here
compressThought(thought) ==
    [thoughtNumber |-> thought.thoughtNumber, timestamp |-> thought.timestamp,
     quality |-> calculateOverallQuality(thought)]

\* compressOldThoughts: the oldest Math.floor(thoughts.length * 0.3) thoughts
toCompress(thoughts) ==
    SubSeq(StableSort(thoughts, LAMBDA t : t.timestamp), 1, (3 * Len(thoughts)) \div 10)

\* getActiveThoughts: the latest maxThoughts thoughts, the latest first
getActiveThoughts(thoughts, c) ==
    SubSeq(StableSort(thoughts, LAMBDA t : 0 - t.timestamp), 1,
           Smaller(Len(thoughts), c.maxThoughts))

\* What manageThoughtHistory does to the thoughts left after the expired
\* ones are dropped: above compressionThreshold the oldest are compressed
\* and the active thoughts returned, else the low qualities are dropped
Managed(thoughts, validThoughts, c) ==
    IF Len(validThoughts) > c.compressionThreshold
    THEN [compressedThoughts |-> compressedThoughts
                                    \o MapSeq(toCompress(validThoughts), compressThought),
          compressionQueue |-> SelectSeq(validThoughts, LAMBDA t :
                                  ~HasNumber(toCompress(validThoughts), t.thoughtNumber)),
          managed |-> [called |-> TRUE, thoughts |-> thoughts, valid |-> validThoughts,
                       returned |-> getActiveThoughts(validThoughts, c)]]
    ELSE [compressedThoughts |-> compressedThoughts,
          compressionQueue |-> compressionQueue,
          managed |-> [called |-> TRUE, thoughts |-> thoughts, valid |-> validThoughts,
                       returned |-> cleanupLowQualityThoughts(validThoughts, c)]]

\* manageThoughtHistory(thoughts), called at the time now on a manager that
\* has managed no history yet
ManageThoughtHistory(thoughts, now) ==
    /\ ~managed.called
    /\ LET out == Managed(thoughts, cleanupExpiredThoughts(thoughts, now, memoryConfig),
                          memoryConfig)
       IN  /\ compressedThoughts' = out.compressedThoughts
           /\ compressionQueue' = out.compressionQueue
           /\ managed' = out.managed
    /\ UNCHANGED <<file, index, call, processor, memoryConfig>>


\* The configs a manager is constructed with
MemoryConfigs ==
    {[NoConfig EXCEPT !.maxThoughts = m, !.compressionThreshold = c, !.retentionPeriod = 60] :
        m \in {0, 2}, c \in {0, 1, 3}}

\* The time of the call, and the timestamps of the thoughts: one expired
\* under a retentionPeriod of 60, two not
Clock == {100}

Timestamps == {10, 50, 90}

Qualities == {<<>>, <<10, 10, 10, 10, 10>>}

\* The histories of at most n thoughts, numbered as they come
Histories(n) ==
    UNION {{[i \in 1..k |-> [thoughtNumber |-> i, timestamp |-> f[i][1], quality |-> f[i][2]]] :
               f \in [1..k -> Timestamps \X Qualities]} : k \in 0..n}

InitMemory ==
    /\ file = NoFile
    /\ index = BuildIndex(EmptyGraph)
    /\ call = [p \in Callers |-> Idle]
    /\ Constructed(NoOptions)
    /\ \E c \in MemoryConfigs : ManagerConstructed(c)

NextMemory ==
    \E thoughts \in Histories(MaxThoughts), now \in Clock :
        ManageThoughtHistory(thoughts, now)

SpecMemory == InitMemory /\ [][NextMemory]_vars

\* ------------------------------------------------------------------------
\* Properties
\* ------------------------------------------------------------------------
\* The graph the backing file holds
Stored == LoadedGraph(file)

StoredEntities == MapSeq(Stored.entities, EntityFields)

StoredRelations == MapSeq(Stored.relations, RelationFields)

\* The graph a call loaded, and the graph the file held when it was issued
LoadedEntities(p) == MapSeq(call[p].loaded.entities, EntityFields)

LoadedRelations(p) == MapSeq(call[p].loaded.relations, RelationFields)

LoadedNames(p) == {call[p].loaded.entities[i].name : i \in 1..Len(call[p].loaded.entities)}

LoadedTriples(p) == {LoadedRelations(p)[i] : i \in 1..Len(call[p].loaded.relations)}

\* The call of p has written its graph (and may have returned)
Saved(p, op) == call[p].op = op /\ call[p].pc \in {"written", "done"}

\* The call of p has run its handler, to a write or to an error
Settled(p, op) == call[p].op = op /\ call[p].pc \in {"written", "done", "failed"}

Distinct(s) == \A i, j \in 1..Len(s) : i # j => s[i] # s[j]

Elems(s) == {s[i] : i \in 1..Len(s)}

\* C1: after any sequence of successful mutating calls that starts from an
\* absent file, no two entities of the stored graph have the same name, also
\* when a createEntities list names the same new entity twice.
C1_UniqueNames ==
    Distinct(MapSeq(Stored.entities, LAMBDA e : e.name))

\* C2: once deleteEntities(names) has saved, the stored graph holds no entity
\* whose name is in names and no relation whose from or to is in names,
\* whatever the loaded graph was (dangling relations included).
C2_DeleteEntitiesCascades ==
    \A p \in Callers :
        Saved(p, "deleteEntities") =>
            LET names == Elems(call[p].args.entityNames)
            IN  /\ \A i \in 1..Len(Stored.entities) : Stored.entities[i].name \notin names
                /\ \A i \in 1..Len(Stored.relations) :
                      /\ Stored.relations[i].from \notin names
                      /\ Stored.relations[i].to \notin names

\* A deleteEntities call that removed a relation only because of its "to",
\* which was named but was no entity of the loaded graph
C2_Witness ==
    \E p \in Callers :
        /\ call[p].pc = "done" /\ call[p].op = "deleteEntities"
        /\ call[p].loaded.entities # <<>>
        /\ Stored.relations = <<>>
        /\ \E r \in LoadedTriples(p) :
              /\ r.to \in Elems(call[p].args.entityNames)
              /\ r.to \notin LoadedNames(p)
              /\ r.from \notin Elems(call[p].args.entityNames)

\* Positions of the request entries whose entityName is none of names
MissingEntries(req, names) == {k \in 1..Len(req) : req[k].entityName \notin names}

\* C3: if an entityName of an addObservations request is absent from the
\* loaded graph, the call fails with an error naming that entity and the file
\* stays exactly as it was: nothing of the request is persisted.
C3_AddObservationsAllOrNothing ==
    \A p \in Callers :
        Settled(p, "addObservations") =>
            LET req     == call[p].args.observations
                missing == MissingEntries(req, LoadedNames(p))
            IN  missing # {} =>
                    /\ call[p].pc = "failed"
                    /\ call[p].error = NotFound(req[Min(missing)].entityName)
                    /\ call[p].writes = 0
                    /\ file = call[p].fileAtCall

\* A failed addObservations call whose first entry named a stored entity and
\* brought it a new observation, and whose second entry named a missing one
C3_Witness ==
    \E p \in Callers :
        /\ call[p].pc = "failed" /\ call[p].op = "addObservations"
        /\ Len(call[p].args.observations) = 2
        /\ call[p].args.observations[1].contents # <<>>
        /\ \E i \in 1..Len(call[p].loaded.entities) :
              /\ call[p].loaded.entities[i].name = call[p].args.observations[1].entityName
              /\ ~Contains(call[p].loaded.entities[i].observations,
                           call[p].args.observations[1].contents[1])
        /\ call[p].args.observations[2].entityName \notin LoadedNames(p)

\* C4: createEntities(L) returns exactly the elements of L whose name is not
\* in the loaded graph, saves the loaded graph with exactly those appended in
\* request order (so an existing entity keeps its entityType and
\* observations), and raises no error.
C4_CreateEntitiesResult ==
    \A p \in Callers :
        /\ call[p].op = "createEntities" => call[p].pc # "failed"
        /\ Saved(p, "createEntities") =>
              /\ call[p].result.entities =
                    SelectSeq(call[p].args.entities,
                              LAMBDA e : e.name \notin LoadedNames(p))
              /\ StoredEntities = LoadedEntities(p) \o call[p].result.entities
              /\ StoredRelations = LoadedRelations(p)

\* A createEntities call that dropped a request for an existing name, asked
\* with another entityType, and inserted the other request
C4_Witness ==
    \E p \in Callers :
        /\ call[p].pc = "done" /\ call[p].op = "createEntities"
        /\ Len(call[p].args.entities) = 2
        /\ Len(call[p].result.entities) = 1
        /\ \E i \in 1..Len(call[p].loaded.entities) :
              /\ call[p].loaded.entities[i].name = call[p].args.entities[1].name
              /\ call[p].loaded.entities[i].entityType #
                    call[p].args.entities[1].entityType

\* C5: when createEntities(L) is called again after it has completed, the
\* second call returns an empty list and leaves the file as the first call
\* left it.
C5_CreateEntitiesIdempotent ==
    \A p \in Callers :
        (Saved(p, "createEntities") /\ call[p].repeated) =>
            /\ call[p].result.entities = <<>>
            /\ file = call[p].fileAtCall

\* A repeated createEntities call whose list names the same entity twice
C5_Witness ==
    \E p \in Callers :
        /\ call[p].pc = "done" /\ call[p].op = "createEntities" /\ call[p].repeated
        /\ Len(call[p].args.entities) = 2
        /\ call[p].args.entities[1].name = call[p].args.entities[2].name
        /\ Len(Stored.entities) = 2

\* C6: createRelations(R) returns and appends exactly the relations of R
\* whose triple is not in the loaded graph, whether or not their endpoints
\* name entities, and raises no error.
C6_CreateRelationsResult ==
    \A p \in Callers :
        /\ call[p].op = "createRelations" => call[p].pc # "failed"
        /\ Saved(p, "createRelations") =>
              /\ call[p].result.relations =
                    SelectSeq(call[p].args.relations,
                              LAMBDA r : r \notin LoadedTriples(p))
              /\ StoredRelations = LoadedRelations(p) \o call[p].result.relations
              /\ StoredEntities = LoadedEntities(p)

\* A createRelations call that dropped a stored triple and appended a
\* relation whose endpoints name no entity
C6_Witness ==
    \E p \in Callers :
        /\ call[p].pc = "done" /\ call[p].op = "createRelations"
        /\ Len(call[p].args.relations) = 2
        /\ call[p].args.relations[1] \in LoadedTriples(p)
        /\ call[p].result.relations = <<call[p].args.relations[2]>>
        /\ call[p].args.relations[2].from \notin LoadedNames(p)
        /\ call[p].args.relations[2].to \notin LoadedNames(p)

\* The strings the result of addObservations reports as added to the entity
\* at position i of the loaded graph
ReportedAdded(p, i) ==
    Flatten(MapSeq(SelectSeq(call[p].result.observations,
                             LAMBDA a : FindEntity(call[p].loaded.entities,
                                                   a.entityName) = i),
                   LAMBDA a : a.addedObservations))

\* C7: addObservations appends no string the entity already holds: entities
\* whose observations were pairwise distinct keep them pairwise distinct, and
\* the addedObservations lists are exactly what was appended to each entity.
C7_AddObservationsKeepsDistinct ==
    \A p \in Callers :
        Saved(p, "addObservations") =>
            \A i \in 1..Len(call[p].loaded.entities) :
                /\ Stored.entities[i].observations =
                      call[p].loaded.entities[i].observations \o ReportedAdded(p, i)
                /\ Distinct(call[p].loaded.entities[i].observations) =>
                      Distinct(Stored.entities[i].observations)

\* No deletion entry lists a string that a loaded entity of its name holds
NothingToDelete(p) ==
    \A k \in 1..Len(call[p].args.deletions) :
        \A i \in 1..Len(call[p].loaded.entities) :
            call[p].loaded.entities[i].name = call[p].args.deletions[k].entityName =>
                Elems(call[p].loaded.entities[i].observations)
                    \cap Elems(call[p].args.deletions[k].observations) = {}

\* C8: deleteObservations that names missing entities or strings the entity
\* does not hold, and deleteRelations that names triples not in the graph,
\* complete without error and leave entities, observations and relations as
\* they were.
C8_DeletingNothingChangesNothing ==
    \A p \in Callers :
        /\ call[p].op \in {"deleteObservations", "deleteRelations"} =>
              call[p].pc # "failed"
        /\ (Saved(p, "deleteObservations") /\ NothingToDelete(p)) =>
              StoredEntities = LoadedEntities(p) /\ StoredRelations = LoadedRelations(p)
        /\ (Saved(p, "deleteRelations")
               /\ Elems(call[p].args.relations) \cap LoadedTriples(p) = {}) =>
              StoredEntities = LoadedEntities(p) /\ StoredRelations = LoadedRelations(p)

\* A deleteObservations call on a graph with a relation, naming a missing
\* entity and an entity that holds another string than the one listed
C8_Witness ==
    \E p \in Callers :
        /\ call[p].pc = "done" /\ call[p].op = "deleteObservations"
        /\ NothingToDelete(p)
        /\ call[p].loaded.relations # <<>>
        /\ Len(call[p].args.deletions) = 2
        /\ call[p].args.deletions[1].entityName \notin LoadedNames(p)
        /\ call[p].args.deletions[1].observations # <<>>
        /\ call[p].args.deletions[2].observations # <<>>
        /\ \E i \in 1..Len(call[p].loaded.entities) :
              /\ call[p].loaded.entities[i].name = call[p].args.deletions[2].entityName
              /\ call[p].loaded.entities[i].observations # <<>>

\* saveGraph followed by loadGraph
Reloaded(g) == LoadedGraph([exists |-> TRUE, lines |-> SaveLines(g)])

\* createEntities, createRelations and addObservations called one after the
\* other, each on the graph the previous one saved
SerialCalls(g, data) ==
    LET c1 == CreateEntitiesOp(g, data.entities)
        c2 == CreateRelationsOp(Reloaded(c1.graph), data.relations)
        c3 == AddObservationsOp(Reloaded(c2.graph), data.observations)
    IN  [graph  |-> Reloaded(c3.graph),
         result |-> [entities |-> c1.result.entities,
                     relations |-> c2.result.relations,
                     observations |-> c3.result.observations],
         error  |-> c3.error]

\* C9: when batchCreate(E, R, O) succeeds, its three result lists and the
\* stored graph equal those of createEntities(E), createRelations(R),
\* addObservations(O) called in series on the same graph.
C9_BatchEqualsSerialCalls ==
    \A p \in Callers :
        Saved(p, "batchCreate") =>
            LET serial == SerialCalls(call[p].loaded, call[p].args)
            IN  /\ ~serial.error.thrown
                /\ call[p].result = serial.result
                /\ Stored = serial.graph

\* C10: batchCreate writes the file at most once, and when an entry of its
\* observation list names an entity that is neither loaded nor created by
\* the batch, it fails without writing: nothing of the batch is persisted.
C10_BatchWritesOnceOrNever ==
    \A p \in Callers :
        call[p].op = "batchCreate" =>
            /\ call[p].writes <= 1
            /\ call[p].pc = "failed" => call[p].writes = 0 /\ file = call[p].fileAtCall
            /\ (Settled(p, "batchCreate")
                  /\ MissingEntries(call[p].args.observations,
                         LoadedNames(p) \cup
                         {e.name : e \in Elems(call[p].args.entities)}) # {}) =>
                  call[p].pc = "failed"

\* A failed batchCreate that would have created an entity
C10_Witness ==
    \E p \in Callers :
        /\ call[p].pc = "failed" /\ call[p].op = "batchCreate"
        /\ call[p].args.entities # <<>>
        /\ call[p].args.entities[1].name \notin LoadedNames(p)
        /\ call[p].fileAtCall.exists

\* The operations that are pure queries
QueryOps == {"readGraph", "searchNodes", "openNodes", "findDuplicates"}

\* C11: readGraph, searchNodes, openNodes and findDuplicates never write the
\* backing file: from the call to its return the file is what it was when
\* the call was issued, and no writeFile is made.
C11_QueriesNeverWrite ==
    \A p \in Callers :
        call[p].op \in QueryOps =>
            /\ call[p].writes = 0
            /\ call[p].pc # "written"
            /\ file = call[p].fileAtCall

\* A findDuplicates call that has returned, on a file that holds an entity
\* with an observation and a relation
C11_Witness ==
    \E p \in Callers :
        /\ call[p].pc = "done" /\ call[p].op = "findDuplicates"
        /\ Stored.relations # <<>>
        /\ \E i \in 1..Len(Stored.entities) : Stored.entities[i].observations # <<>>

RECURSIVE IsSubseq(_, _)
IsSubseq(s, t) ==
    IF s = <<>> THEN TRUE
    ELSE IF t = <<>> THEN FALSE
    ELSE IF Head(s) = Head(t) THEN IsSubseq(Tail(s), Tail(t))
    ELSE IsSubseq(s, Tail(t))

\* after is what survives of before, in the order of before, followed by added
KeepsOrder(before, after, added) ==
    \E k \in 0..Len(after) :
        /\ IsSubseq(SubSeq(after, 1, k), before)
        /\ SubSeq(after, k + 1, Len(after)) = added

\* C13: in every file written no relation record precedes an entity record,
\* the records of each group are those of the in-memory sequence in its
\* order, and what a mutation leaves of the loaded entities and relations
\* keeps its relative order, new records coming last.
C13_SaveKeepsOrder ==
    /\ \A i, j \in 1..Len(file.lines) :
          i < j => ~(file.lines[i].type = "relation" /\ file.lines[j].type = "entity")
    /\ \A p \in Callers :
          call[p].pc \in {"written", "done"} =>
              /\ MapSeq(SelectSeq(file.lines, LAMBDA l : l.type = "entity"), EntityFields)
                    = MapSeq(call[p].graph.entities, EntityFields)
              /\ MapSeq(SelectSeq(file.lines, LAMBDA l : l.type = "relation"),
                        RelationFields)
                    = MapSeq(call[p].graph.relations, RelationFields)
              /\ KeepsOrder(LoadedEntities(p), StoredEntities, call[p].result.entities)
              /\ KeepsOrder(LoadedRelations(p), StoredRelations, call[p].result.relations)

\* A deleteRelations call that removed the second of three relations:
\* the first and the third are left, in that order
C13_Witness ==
    \E p \in Callers :
        /\ call[p].pc = "done" /\ call[p].op = "deleteRelations"
        /\ Len(call[p].loaded.relations) = 3
        /\ StoredRelations = <<LoadedRelations(p)[1], LoadedRelations(p)[3]>>

\* C14: a call issued when the backing file does not exist loads the empty
\* graph, meets no file error and leaves the indexes rebuilt for the empty
\* graph; readGraph, searchNodes and openNodes return an empty result.
C14_MissingFileIsEmptyGraph ==
    \A p \in Callers :
        (call[p].op # "none" /\ ~call[p].fileAtCall.exists) =>
            /\ call[p].loaded = EmptyGraph
            /\ call[p].pc = "failed" => "code" \notin DOMAIN call[p].error
            /\ call[p].op \in {"readGraph", "searchNodes", "openNodes"} => call[p].pc # "failed"
            /\ call[p].pc = "loaded" => index = BuildIndex(EmptyGraph)
            /\ (call[p].pc = "done"
                  /\ call[p].op \in {"readGraph", "searchNodes", "openNodes"}) =>
                  call[p].result = NoResult

\* A searchNodes call with a query of one word that has returned, issued
\* when there was no file
C14_Witness ==
    \E p \in Callers :
        /\ call[p].pc = "done" /\ call[p].op = "searchNodes"
        /\ call[p].args.query = "a"
        /\ ~call[p].fileAtCall.exists
        /\ ~file.exists

\* C15: a call whose load fails with a read error or on a line that does
\* not parse fails with that error, has written nothing and leaves the file
\* as it was; on a file with such a line no operation gets past its load.
C15_LoadFailureFailsTheCall ==
    \A p \in Callers :
        /\ (call[p].pc = "failed" /\ call[p].error \in LoadErrors(call[p].fileAtCall)) =>
              /\ call[p].writes = 0
              /\ file = call[p].fileAtCall
        /\ ~Parses(call[p].fileAtCall) =>
              /\ call[p].pc \in {"loading", "failed"}
              /\ call[p].pc = "failed" =>
                    call[p].error \in {ReadError("EACCES"), SyntaxError}

\* A batchCreate call that failed with the SyntaxError of a line behind a
\* valid entity record
C15_Witness ==
    \E p \in Callers :
        /\ call[p].pc = "failed" /\ call[p].op = "batchCreate"
        /\ call[p].error = SyntaxError
        /\ Len(file.lines) = 2
        /\ file.lines[1] # Unparsable
        /\ file.lines[2] = Unparsable

\* The request of the call of p
Request(p) == [op |-> call[p].op, args |-> call[p].args]

\* C16: with overlapping calls, every save writes the graph its own call
\* loaded with its own update applied, whatever the file has come to hold
\* since that load: the later save overwrites the earlier one.
C16_LaterSaveOverwrites ==
    [][\A p \in Callers :
          (call[p].pc = "loaded" /\ call'[p].pc = "written") =>
              file'.lines = SaveLines(Outcome(call[p].loaded, Request(p)).graph)]_vars

\* Two createEntities calls that both loaded the empty graph and both
\* returned; the entity the first reported as inserted is not in the file
C16_Witness ==
    /\ call["c1"].pc = "done" /\ call["c1"].op = "createEntities"
    /\ call["c2"].pc = "done" /\ call["c2"].op = "createEntities"
    /\ call["c1"].loaded = EmptyGraph /\ call["c2"].loaded = EmptyGraph
    /\ call["c1"].result.entities # <<>>
    /\ ~HasName(Stored.entities, call["c1"].result.entities[1].name)

\* C17: when each call is awaited before the next is issued, the file is
\* not written between a call and its load, the load returns exactly the
\* records the latest save wrote, and the save writes the request applied to
\* them: the file is the sequential application of the calls.
C17_ReadAfterWrite ==
    \A p \in Callers :
        /\ call[p].pc \in {"loading", "loaded"} => file = call[p].fileAtCall
        /\ call[p].pc \in {"loaded", "written", "done"} =>
              SaveLines(call[p].loaded) = call[p].fileAtCall.lines
        /\ call[p].pc \in {"written", "done"} =>
              /\ file.lines = SaveLines(Outcome(call[p].loaded, Request(p)).graph)
              /\ call[p].result = Outcome(call[p].loaded, Request(p)).result

\* A createEntities call that loaded the entity and the relation earlier
\* calls had saved, and added a second entity to them
C17_Witness ==
    \E p \in Callers :
        /\ call[p].pc = "done" /\ call[p].op = "createEntities"
        /\ Len(call[p].loaded.entities) = 1
        /\ Len(call[p].loaded.relations) = 1
        /\ Len(Stored.entities) = 2
        /\ Len(Stored.relations) = 1

\* C18: searchNodes with an empty or whitespace-only query does not fail and
\* returns no entities and no relations, whatever the stored graph.
C18_BlankQueryReturnsNothing ==
    \A p \in Callers :
        (call[p].op = "searchNodes" /\ call[p].args.query \in {"", " "}) =>
            /\ call[p].pc # "failed"
            /\ call[p].pc = "done" => call[p].result = NoResult

\* A searchNodes call with a query of one space that has returned, on a
\* file that holds an entity and a relation
C18_Witness ==
    \E p \in Callers :
        /\ call[p].pc = "done" /\ call[p].op = "searchNodes"
        /\ call[p].args.query = " "
        /\ Stored.entities # <<>>
        /\ Stored.relations # <<>>

\* The names of the entities of a result
ResultNames(p) == {call[p].result.entities[i].name : i \in 1..Len(call[p].result.entities)}

\* C19: the relations of a searchNodes result are exactly the stored
\* relations whose from and to are both names of entities of that result,
\* in stored order.
C19_SearchInducedSubgraph ==
    \A p \in Callers :
        (call[p].pc = "done" /\ call[p].op = "searchNodes") =>
            /\ IsSubseq(call[p].result.entities, Stored.entities)
            /\ call[p].result.relations =
                  SelectSeq(Stored.relations,
                            LAMBDA r : r.from \in ResultNames(p) /\ r.to \in ResultNames(p))

\* A searchNodes result with an entity, a stored relation on it that is in
\* the result and a stored relation leaving it that is not
C19_Witness ==
    \E p \in Callers :
        /\ call[p].pc = "done" /\ call[p].op = "searchNodes"
        /\ Len(call[p].result.entities) = 1
        /\ Len(call[p].result.relations) = 1
        /\ \E i \in 1..Len(Stored.relations) :
              /\ Stored.relations[i].from \in ResultNames(p)
              /\ Stored.relations[i].to \notin ResultNames(p)

\* C20: openNodes(names) does not fail and returns exactly the stored
\* entities whose name is an element of names, in stored order, with exactly
\* the stored relations whose from and to are names of returned entities.
C20_OpenNodesExact ==
    \A p \in Callers :
        call[p].op = "openNodes" =>
            /\ call[p].pc # "failed"
            /\ call[p].pc = "done" =>
                  /\ call[p].result.entities =
                        SelectSeq(Stored.entities,
                                  LAMBDA e : e.name \in Elems(call[p].args.names))
                  /\ call[p].result.relations =
                        SelectSeq(Stored.relations,
                                  LAMBDA r : r.from \in ResultNames(p)
                                             /\ r.to \in ResultNames(p))

\* An openNodes call that named the two stored entities in the reverse of
\* their stored order, and got them in stored order with their relation
C20_Witness ==
    \E p \in Callers :
        /\ call[p].pc = "done" /\ call[p].op = "openNodes"
        /\ call[p].args.names = <<"b", "a">>
        /\ Len(call[p].result.entities) = 2
        /\ call[p].result.entities[1].name = "a"
        /\ call[p].result.entities[2].name = "b"
        /\ Len(call[p].result.relations) = 1

\* s occurs in t as a run of consecutive characters
IsSubstring(s, t) ==
    \E k \in 0..(Len(t) - Len(s)) : SubSeq(t, k + 1, k + Len(s)) = s

\* C21: a searchNodes result contains every stored entity that holds an
\* observation of which the non-empty query is a substring.
C21_SubstringOfObservationFound ==
    \A p \in Callers :
        (call[p].pc = "done" /\ call[p].op = "searchNodes"
            /\ Chars(call[p].args.query) # <<>>) =>
            \A i \in 1..Len(Stored.entities) :
                (\E j \in 1..Len(Stored.entities[i].observations) :
                    IsSubstring(Chars(call[p].args.query),
                                Chars(Stored.entities[i].observations[j])))
                    => Contains(call[p].result.entities, Stored.entities[i])

\* A findDuplicates call that has returned its report
Reported(p) == call[p].op = "findDuplicates" /\ call[p].pc = "done"

\* The options findDuplicates is to work with, as C22 words them: a field
\* supplied, else the named preset's, else the default
EffectiveOptions(options) ==
    LET preset == IF "preset" \in DOMAIN options THEN options["preset"] ELSE "standard"
        ofPreset ==
            CASE preset = "strict" -> <<95, 90, FALSE>>
              [] preset = "standard" -> <<80, 70, FALSE>>
              [] preset = "loose" -> <<60, 50, TRUE>>
    IN  [k \in {"entityNameSimilarityThreshold", "observationSimilarityThreshold",
                "semanticMatchingEnabled", "considerEntityType", "checkExistingGraph"} |->
            IF k \in DOMAIN options THEN options[k]
            ELSE CASE k = "entityNameSimilarityThreshold" -> ofPreset[1]
                   [] k = "observationSimilarityThreshold" -> ofPreset[2]
                   [] k = "semanticMatchingEnabled" -> ofPreset[3]
                   [] k = "considerEntityType" -> TRUE
                   [] k = "checkExistingGraph" -> FALSE]

\* C22: every report is the one the effective options give, where these are
\* the defaults, overridden by the named preset (strict 0.95/0.90 without
\* semantic matching, standard 0.80/0.70 without, loose 0.60/0.50 with),
\* overridden by the options supplied.
C22_OptionsDefaultsPresetExplicit ==
    \A p \in Callers :
        Reported(p) =>
            LET o == EffectiveOptions(call[p].args.options)
                g == call[p].loaded
                existing == o["checkExistingGraph"] \/ call[p].args.checkExistingGraph
            IN  /\ call[p].result.duplicateEntities
                        = DuplicateEntities(g, o, call[p].args.entities)
                /\ call[p].result.duplicateRelations
                        = DuplicateRelations(g, o, call[p].args.relations)
                /\ call[p].result.duplicateObservations
                        = DuplicateObservations(g, o, call[p].args.observations)
                /\ call[p].result.existingDuplicates.entities
                        = IF existing THEN ExistingEntityDuplicates(g, o) ELSE <<>>
                /\ call[p].result.existingDuplicates.relations
                        = IF existing THEN ExistingRelationDuplicates(g, o) ELSE <<>>

\* A call that named the strict preset and supplied a threshold of 0.6 of
\* its own, and was reported a pair that scores less than 0.95
C22_Witness ==
    \E p \in Callers :
        /\ Reported(p)
        /\ call[p].args.options = [preset |-> "strict", entityNameSimilarityThreshold |-> 60]
        /\ \E i \in 1..Len(call[p].result.duplicateEntities) :
              Less(call[p].result.duplicateEntities[i].similarityScore, Hundredths(95))

\* The Levenshtein distance of the first i characters of a and the first j
\* of b, letters compared without regard to case
RECURSIVE EditDistance(_, _, _, _)
EditDistance(a, b, i, j) ==
    IF i = 0 THEN j
    ELSE IF j = 0 THEN i
    ELSE Min({EditDistance(a, b, i - 1, j) + 1,
              EditDistance(a, b, i, j - 1) + 1,
              EditDistance(a, b, i - 1, j - 1)
                  + (IF ToLowerCase(a[i]) = ToLowerCase(b[j]) THEN 0 ELSE 1)})

\* The edit similarity of two strings as a fraction, <<numerator, denominator>>
EditSimilarity(str1, str2) ==
    LET a == Chars(str1)
        b == Chars(str2)
        longer == IF Len(a) < Len(b) THEN Len(b) ELSE Len(a)
    IN  IF longer = 0 THEN <<1, 1>>
        ELSE <<longer - EditDistance(a, b, Len(a), Len(b)), longer>>

\* 0.7 * name + 0.3 * type >= threshold, for the similarities as fractions
\* and the threshold in hundredths
ScoreReaches(name, type, threshold) ==
    70 * name[1] * type[2] + 30 * type[1] * name[2] >= threshold * name[2] * type[2]

\* The pair of candidate i and stored entity j is among duplicateEntities
PairReported(p, i, j) ==
    \E k \in 1..Len(call[p].result.duplicateEntities) :
        /\ call[p].result.duplicateEntities[k].entity = call[p].args.entities[i]
        /\ call[p].result.duplicateEntities[k].existingEntity = call[p].loaded.entities[j]

\* C23: without semantic matching, where the similarities are those of the
\* edit distance, a candidate and a stored entity are reported if and only
\* if 0.7 * nameSimilarity + 0.3 * typeSimilarity reaches the effective entity
\* threshold (a score equal to it included), typeSimilarity being 1 where
\* considerEntityType is false.
C23_ReportedIffScoreReachesThreshold ==
    \A p \in Callers :
        (Reported(p)
            /\ ~EffectiveOptions(call[p].args.options)["semanticMatchingEnabled"]) =>
            LET o == EffectiveOptions(call[p].args.options)
            IN  \A i \in 1..Len(call[p].args.entities) :
                \A j \in 1..Len(call[p].loaded.entities) :
                    PairReported(p, i, j) <=>
                        ScoreReaches(
                            EditSimilarity(call[p].args.entities[i].name,
                                           call[p].loaded.entities[j].name),
                            IF o["considerEntityType"]
                            THEN EditSimilarity(call[p].args.entities[i].entityType,
                                                call[p].loaded.entities[j].entityType)
                            ELSE <<1, 1>>,
                            o["entityNameSimilarityThreshold"])

\* C24: whatever the preset and the semantic setting, at an entity threshold
\* of at most 1.0 a candidate that has the name and the entityType of a
\* stored entity is reported with it, with similarityScore 1.0 and matchType
\* 'exact'.
C24_IdenticalEntityScoresOne ==
    \A p \in Callers :
        (Reported(p)
            /\ EffectiveOptions(call[p].args.options)["entityNameSimilarityThreshold"] <= 100) =>
            \A i \in 1..Len(call[p].args.entities) :
            \A j \in 1..Len(call[p].loaded.entities) :
                (/\ call[p].args.entities[i].name = call[p].loaded.entities[j].name
                 /\ call[p].args.entities[i].entityType
                        = call[p].loaded.entities[j].entityType) =>
                    \E k \in 1..Len(call[p].result.duplicateEntities) :
                        /\ call[p].result.duplicateEntities[k].entity
                                = call[p].args.entities[i]
                        /\ call[p].result.duplicateEntities[k].existingEntity
                                = call[p].loaded.entities[j]
                        /\ call[p].result.duplicateEntities[k].similarityScore = One
                        /\ call[p].result.duplicateEntities[k].matchType = "exact"

\* The edit similarity of two strings exceeds 0.9
Exceeds90(str1, str2) ==
    100 * EditSimilarity(str1, str2)[1] > 90 * EditSimilarity(str1, str2)[2]

\* matchType as C25 words it, for compared values given in pairs
ExpectedMatchType(semantic, pairs) ==
    IF \A i \in 1..Len(pairs) : pairs[i][1] = pairs[i][2] THEN "exact"
    ELSE IF semantic /\ \A i \in 1..Len(pairs) : Exceeds90(pairs[i][1], pairs[i][2])
         THEN "semantic"
         ELSE "fuzzy"

\* C25: every reported match of entities, of relations and of observations
\* has matchType 'exact' if the compared values are identical, else 'semantic'
\* if semantic matching is enabled and the edit similarity of the compared
\* values exceeds 0.9, else 'fuzzy'.
C25_MatchTypeRule ==
    \A p \in Callers :
        Reported(p) =>
            LET semantic == EffectiveOptions(call[p].args.options)["semanticMatchingEnabled"]
                r == call[p].result
            IN  /\ \A k \in 1..Len(r.duplicateEntities) :
                      r.duplicateEntities[k].matchType
                        = ExpectedMatchType(semantic,
                            <<<<r.duplicateEntities[k].entity.name,
                                r.duplicateEntities[k].existingEntity.name>>>>)
                /\ \A k \in 1..Len(r.duplicateRelations) :
                      r.duplicateRelations[k].matchType
                        = ExpectedMatchType(semantic,
                            <<<<r.duplicateRelations[k].relation.from,
                                r.duplicateRelations[k].existingRelation.from>>,
                              <<r.duplicateRelations[k].relation.to,
                                r.duplicateRelations[k].existingRelation.to>>,
                              <<r.duplicateRelations[k].relation.relationType,
                                r.duplicateRelations[k].existingRelation.relationType>>>>)
                /\ \A k \in 1..Len(r.duplicateObservations) :
                      r.duplicateObservations[k].matchType
                        = ExpectedMatchType(semantic,
                            <<<<r.duplicateObservations[k].observation,
                                r.duplicateObservations[k].existingObservation>>>>)

\* duplicateType as C26 words it
ExpectedDuplicateType(allEqual) == IF allEqual THEN "structural" ELSE "semantic"

\* C26: a reported match is 'structural' if and only if every compared field
\* is equal (name and entityType; from, to and relationType; the text of the
\* observation), else 'semantic'; a 'structural' match is an 'exact' one.
C26_StructuralIffAllFieldsEqual ==
    \A p \in Callers :
        Reported(p) =>
            LET r == call[p].result
                entityPairs == [k \in 1..Len(r.duplicateEntities) |->
                                    <<r.duplicateEntities[k], r.duplicateEntities[k].entity,
                                      r.duplicateEntities[k].existingEntity>>]
                                \o [k \in 1..Len(r.existingDuplicates.entities) |->
                                    <<r.existingDuplicates.entities[k],
                                      r.existingDuplicates.entities[k].entity1,
                                      r.existingDuplicates.entities[k].entity2>>]
                relationPairs == [k \in 1..Len(r.duplicateRelations) |->
                                    <<r.duplicateRelations[k], r.duplicateRelations[k].relation,
                                      r.duplicateRelations[k].existingRelation>>]
                                \o [k \in 1..Len(r.existingDuplicates.relations) |->
                                    <<r.existingDuplicates.relations[k],
                                      r.existingDuplicates.relations[k].relation1,
                                      r.existingDuplicates.relations[k].relation2>>]
            IN  /\ \A k \in 1..Len(entityPairs) :
                      LET d == entityPairs[k][1]
                          e1 == entityPairs[k][2]
                          e2 == entityPairs[k][3]
                      IN  /\ d.duplicateType
                                = ExpectedDuplicateType(e1.name = e2.name
                                                        /\ e1.entityType = e2.entityType)
                          /\ d.duplicateType = "structural" => d.matchType = "exact"
                /\ \A k \in 1..Len(relationPairs) :
                      LET d == relationPairs[k][1]
                          r1 == relationPairs[k][2]
                          r2 == relationPairs[k][3]
                      IN  /\ d.duplicateType
                                = ExpectedDuplicateType(/\ r1.from = r2.from
                                                        /\ r1.to = r2.to
                                                        /\ r1.relationType = r2.relationType)
                          /\ d.duplicateType = "structural" => d.matchType = "exact"
                /\ \A k \in 1..Len(r.duplicateObservations) :
                      LET d == r.duplicateObservations[k]
                      IN  /\ d.duplicateType
                                = ExpectedDuplicateType(d.observation = d.existingObservation)
                          /\ d.duplicateType = "structural" => d.matchType = "exact"

\* A report with an entity match of equal names and different types, which
\* is 'exact' and not 'structural'
C26_Witness ==
    \E p \in Callers :
        /\ Reported(p)
        /\ \E k \in 1..Len(call[p].result.duplicateEntities) :
              LET d == call[p].result.duplicateEntities[k]
              IN  /\ d.entity.name = d.existingEntity.name
                  /\ d.entity.entityType # d.existingEntity.entityType
                  /\ d.matchType = "exact" /\ d.duplicateType = "semantic"

\* The stored entities of a name
EntitiesNamed(p, n) ==
    {j \in 1..Len(call[p].loaded.entities) : call[p].loaded.entities[j].name = n}

\* C27: the observation matches reported are those of a candidate text with
\* an observation of the stored entity of the candidate's entityName whose
\* similarity, as findDuplicates computes it under the effective options,
\* is at least the observation threshold; a candidate that names no stored
\* entity is matched with nothing, and the call does not fail for it.
C27_ObservationsOfTheNamedEntity ==
    \A p \in Callers :
        (call[p].op = "findDuplicates" /\ call[p].pc \in {"done", "failed"}) =>
            LET o == EffectiveOptions(call[p].args.options)
                reaches(content, existing) ==
                    ~Less(TextSimilarity(o, content, existing),
                          Hundredths(o["observationSimilarityThreshold"]))
                matches == call[p].result.duplicateObservations
            IN  /\ call[p].pc = "done"
                /\ \A k \in 1..Len(matches) :
                      /\ \E i \in 1..Len(call[p].args.observations) :
                            /\ call[p].args.observations[i].entityName = matches[k].entityName
                            /\ Contains(call[p].args.observations[i].contents,
                                        matches[k].observation)
                      /\ \E j \in EntitiesNamed(p, matches[k].entityName) :
                            Contains(call[p].loaded.entities[j].observations,
                                     matches[k].existingObservation)
                      /\ reaches(matches[k].observation, matches[k].existingObservation)
                /\ \A i \in 1..Len(call[p].args.observations) :
                   \A c \in 1..Len(call[p].args.observations[i].contents) :
                   \A j \in EntitiesNamed(p, call[p].args.observations[i].entityName) :
                   \A e \in 1..Len(call[p].loaded.entities[j].observations) :
                      reaches(call[p].args.observations[i].contents[c],
                              call[p].loaded.entities[j].observations[e]) =>
                          \E k \in 1..Len(matches) :
                              /\ matches[k].entityName
                                    = call[p].args.observations[i].entityName
                              /\ matches[k].observation
                                    = call[p].args.observations[i].contents[c]
                              /\ matches[k].existingObservation
                                    = call[p].loaded.entities[j].observations[e]

\* A report on candidates for a stored entity and for an entity that is not
\* stored, next to a stored entity that holds no observation of its own:
\* the one match is with the observation of the entity named, at a
\* similarity equal to the threshold
C27_Witness ==
    \E p \in Callers :
        /\ Reported(p)
        /\ call[p].args.observations
                = <<[entityName |-> "is_a", contents |-> <<"xy">>],
                    [entityName |-> "b", contents |-> <<"x">>]>>
        /\ EntitiesNamed(p, "b") = {}
        /\ EntitiesNamed(p, "is_a") # {}
        /\ EffectiveOptions(call[p].args.options)["observationSimilarityThreshold"] = 50
        /\ Len(call[p].result.duplicateObservations) = 1
        /\ call[p].result.duplicateObservations[1].similarityScore = Hundredths(50)

\* C28: in every report the counts of statistics are the lengths of the
\* five lists of matches and totalDuplicates is their sum, which is 0 if and
\* only if no match of any kind is reported.
C28_StatisticsCountTheLists ==
    \A p \in Callers :
        Reported(p) =>
            LET r == call[p].result
                s == call[p].result.statistics
            IN  /\ s.entityDuplicates = Len(r.duplicateEntities)
                /\ s.relationDuplicates = Len(r.duplicateRelations)
                /\ s.observationDuplicates = Len(r.duplicateObservations)
                /\ s.existingEntityDuplicates = Len(r.existingDuplicates.entities)
                /\ s.existingRelationDuplicates = Len(r.existingDuplicates.relations)
                /\ s.totalDuplicates
                        = s.entityDuplicates + s.relationDuplicates + s.observationDuplicates
                            + s.existingEntityDuplicates + s.existingRelationDuplicates
                /\ s.totalDuplicates = 0 <=>
                        /\ r.duplicateEntities = <<>>
                        /\ r.duplicateRelations = <<>>
                        /\ r.duplicateObservations = <<>>
                        /\ r.existingDuplicates.entities = <<>>
                        /\ r.existingDuplicates.relations = <<>>

\* A report of two matches of a candidate and of a match within the graph
C28_Witness ==
    \E p \in Callers :
        /\ Reported(p)
        /\ Len(call[p].result.duplicateEntities) = 2
        /\ Len(call[p].result.existingDuplicates.entities) = 1
        /\ call[p].result.statistics.totalDuplicates = 3

\* C29: without semantic matching, the similarity reported for a candidate
\* text a and a stored text b is 1 - d / max(|a|, |b|) in binary64, d being
\* their Levenshtein distance without regard to case; it is 1.0 for equal
\* texts, two empty ones included, lies between 0 and 1, and is what
\* calculateSimilarity returns for b and a.
C29_EditSimilarity ==
    \A p \in Callers :
        (Reported(p)
            /\ ~EffectiveOptions(call[p].args.options)["semanticMatchingEnabled"]) =>
            \A k \in 1..Len(call[p].result.duplicateObservations) :
                LET score == call[p].result.duplicateObservations[k].similarityScore
                    a == Chars(call[p].result.duplicateObservations[k].observation)
                    b == Chars(call[p].result.duplicateObservations[k].existingObservation)
                    longer == IF Len(a) < Len(b) THEN Len(b) ELSE Len(a)
                IN  /\ score = IF longer = 0 THEN One
                               ELSE Minus(One, Over(Number(EditDistance(a, b, Len(a), Len(b))),
                                                    Number(longer)))
                    /\ a = b => score = One
                    /\ ~Less(score, Zero) /\ ~Less(One, score)
                    /\ score = calculateSimilarity(b, a)

\* The similarity of "A" and "ab", which is 0.5: the letters a match and
\* the b is inserted
C29_Witness ==
    \E p \in Callers :
        /\ Reported(p)
        /\ call[p].args.options = [observationSimilarityThreshold |-> 0]
        /\ Len(call[p].result.duplicateObservations) = 1
        /\ call[p].result.duplicateObservations[1].observation = "A"
        /\ call[p].result.duplicateObservations[1].existingObservation = "ab"
        /\ call[p].result.duplicateObservations[1].similarityScore = Hundredths(50)

\* C30: once a waitForTask call has resolved with the result of its task,
\* the task having been processed with success, getTaskStatus of the task
\* is 'completed'.
C30_CompletedAfterWait ==
    \A w \in 1..Len(waits) :
        (/\ waits[w].state = "resolved"
         /\ waits[w].value.kind = "result"
         /\ waits[w].value.success) =>
            getTaskStatus(waits[w].task) = "completed"

\* C32: when more unexpired thoughts than compressionThreshold are given to
\* manageThoughtHistory, the history it returns is strictly shorter than the
\* one it was given and at least one compressed thought is recorded.
C32_CompressionShortensHistory ==
    (managed.called /\ Len(managed.valid) > memoryConfig.compressionThreshold) =>
        /\ Len(managed.returned) < Len(managed.thoughts)
        /\ compressedThoughts # <<>>

\* C31: a task whose processing takes longer than taskTimeout ends with a
\* result whose success is false (a timeout), not with a success.
C31_SlowTaskTimesOut ==
    \A p \in 1..Len(promises) :
        (/\ promises[p].settled
         /\ tasks[promises[p].task].type = "quality_evaluation"
         /\ config.taskTimeout < MinDelay) => ~promises[p].success

\* The priority of the task a promise of processTask belongs to
PriorityOf(ts, ps, promise) == ts[ps[promise].task].priority

Running == {p \in 1..Len(promises) : ~promises[p].settled}

\* C34: in every reachable state the tasks being processed are at most
\* maxConcurrentTasks: processingTasks holds no more entries, and no more
\* promises of processTask are unsettled.
C34_AtMostMaxConcurrent ==
    /\ Len(processingTasks) <= config.maxConcurrentTasks
    /\ Cardinality(Running) <= config.maxConcurrentTasks

\* Two tasks are being processed, the most that may be, and a third waits
\* in the queue
C34_Witness ==
    /\ config.maxConcurrentTasks = 2
    /\ Cardinality(Running) = 2
    /\ Len(processingTasks) = 2
    /\ taskQueue # <<>>

\* C39: a task whose processing keeps failing is attempted at most
\* 1 + maxRetries times, and once it has yielded its failure no copy of it
\* is left in the queue.
C39_AttemptsBounded ==
    \A id \in 1..Len(tasks) :
        /\ tasks[id].attempts <= 1 + config.maxRetries
        /\ (\E p \in 1..Len(promises) :
               promises[p].task = id /\ promises[p].settled /\ ~promises[p].success)
              => ~Contains(taskQueue, id)

\* C35: when a searchNodes call consults the indexes, they are the indexes
\* built from the graph this call loaded, also when the loads and saves of
\* other calls overlap with it.
C35_SearchUsesOwnIndex ==
    [][\A p \in Callers :
          (call[p].op = "searchNodes" /\ call[p].pc = "loaded" /\ call'[p].pc = "done") =>
              index = BuildIndex(call[p].loaded)]_vars

\* A searchNodes call that found an entity another call had saved while the
\* search was under way: the graph it loaded is not the one the file held
\* when it was issued
C35_Witness ==
    \E p, q \in Callers :
        /\ p # q
        /\ call[p].op = "searchNodes" /\ call[p].pc = "done"
        /\ call[p].result.entities # <<>>
        /\ call[p].loaded # LoadedGraph(call[p].fileAtCall)
        /\ call[q].op = "createEntities" /\ call[q].pc \in {"written", "done"}
        /\ call[q].fileAtCall = call[p].fileAtCall

\* C36: deleteEntities(names) saves the loaded graph without the entities
\* named and without the relations that have an endpoint in names: the other
\* entities keep their entityType and observations, the other relations are
\* kept, both in their order, and a name of no entity raises no error.
C36_DeleteEntitiesFrame ==
    \A p \in Callers :
        /\ call[p].op = "deleteEntities" => call[p].pc # "failed"
        /\ Saved(p, "deleteEntities") =>
              LET names == Elems(call[p].args.entityNames)
              IN  /\ StoredEntities =
                        SelectSeq(LoadedEntities(p), LAMBDA e : e.name \notin names)
                  /\ StoredRelations =
                        SelectSeq(LoadedRelations(p),
                                  LAMBDA r : r.from \notin names /\ r.to \notin names)

\* A deleteEntities call that named an entity and a name of none: two
\* entities stay, one of them with an observation
C36_Witness ==
    \E p \in Callers :
        /\ call[p].pc = "done" /\ call[p].op = "deleteEntities"
        /\ \E n \in Elems(call[p].args.entityNames) : n \in LoadedNames(p)
        /\ \E n \in Elems(call[p].args.entityNames) : n \notin LoadedNames(p)
        /\ Len(Stored.entities) = 2
        /\ Stored.entities[1].observations # <<>>
        /\ Len(call[p].loaded.relations) = 2 /\ Stored.relations = <<>>

\* C37: no two relations of the stored graph have the same from, to and
\* relationType, after any sequence of successful calls from an empty graph,
\* also when a request repeats a triple.
C37_UniqueTriples == Distinct(StoredRelations)

\* The pairs of the elements at two positions of s, the lower position first
PairsOnce(s) ==
    {<<s[q[1]], s[q[2]]>> : q \in {r \in (1..Len(s)) \X (1..Len(s)) : r[1] < r[2]}}

\* The number of those pairs of positions
PairCount(s) == (Len(s) * (Len(s) - 1)) \div 2

\* C38: when checkExistingGraph is set, in the candidates or in the options,
\* the entities of the graph, and its relations, are compared pair by pair,
\* each pair of two positions once: the pairs reported are among them, no
\* more than there are, and under a threshold of 0 they are all reported.
C38_SelfCheckPairsOnce ==
    \A p \in Callers :
        (/\ call[p].pc = "done" /\ call[p].op = "findDuplicates"
         /\ CheckExisting(call[p].args, MergedOptions(call[p].args.options))) =>
            LET g == call[p].loaded
                found == call[p].result.existingDuplicates
                entityPairs == {<<found.entities[k].entity1, found.entities[k].entity2>> :
                                   k \in 1..Len(found.entities)}
                relationPairs == {<<found.relations[k].relation1, found.relations[k].relation2>> :
                                     k \in 1..Len(found.relations)}
                all == MergedOptions(call[p].args.options)["entityNameSimilarityThreshold"] = 0
            IN  /\ entityPairs \subseteq PairsOnce(g.entities)
                /\ relationPairs \subseteq PairsOnce(g.relations)
                /\ Len(found.entities) <= PairCount(g.entities)
                /\ Len(found.relations) <= PairCount(g.relations)
                /\ all => /\ entityPairs = PairsOnce(g.entities)
                          /\ Len(found.entities) = PairCount(g.entities)
                          /\ relationPairs = PairsOnce(g.relations)
                          /\ Len(found.relations) = PairCount(g.relations)

\* The three pairs of three stored entities are reported, the flag being
\* set in the options
C38_Witness ==
    \E p \in Callers :
        /\ call[p].pc = "done" /\ call[p].op = "findDuplicates"
        /\ ~call[p].args.checkExistingGraph
        /\ Len(call[p].loaded.entities) = 3
        /\ Len(call[p].result.existingDuplicates.entities) = 3


\* The task is queued / has started: it has an entry in processingTasks /
\* has yielded a result: the promise of its entry has settled
Queued(id) == Contains(taskQueue, id)

Started(id) == Has(processingTasks, id)

Yielded(id) == Has(processingTasks, id) /\ promises[Get(processingTasks, id)].settled

\* A task of higher priority is queued ahead of the task
Overtaken(id) ==
    /\ id \in 1..Len(tasks)
    /\ \E i \in 1..Len(taskQueue) : tasks[taskQueue[i]].priority > tasks[id].priority

\* C40 as stated: every task that is queued and not cancelled starts in the
\* end, and every task that has started yields a result in the end
C40_EveryTaskStartsAndYields ==
    \A id \in TaskIds : (Queued(id) ~> Started(id)) /\ (Started(id) ~> Yielded(id))

\* C40, amended: a task that is queued and not cancelled starts in the end
\* unless tasks of higher priority are queued ahead of it again and again,
\* and every task that has started yields a result in the end
C40_TaskStartsUnlessOvertaken ==
    \A id \in TaskIds :
        /\ Queued(id) ~> (Started(id) \/ Overtaken(id))
        /\ Started(id) ~> Yielded(id)

\* A task of the lower priority has yielded its result while a task of the
\* higher priority, which has run, is done and a third is queued
C40_Witness ==
    \E low \in 1..Len(tasks), high \in 1..Len(tasks) :
        /\ tasks[low].priority = 1 /\ tasks[high].priority = 10
        /\ Yielded(low)
        /\ tasks[high].attempts > 0 /\ ~Queued(high) /\ ~Started(high)
        /\ taskQueue # <<>>

====
